---- MODULE Spec2Model ----
(***************************************************************************)
(* Ball-by-ball cricket scoring on a document store: the match aggregate   *)
(* (collection "matches"), the per-innings ball log (sub-collection        *)
(* matches/{id}/innings/{n}/balls), the scoring transaction recordBall,    *)
(* the undo processor undoLastBall and the match lifecycle operations.     *)
(***************************************************************************)
EXTENDS Integers, Sequences, FiniteSets, TLC

VARIABLES
  matches,   \* collection "matches": match id -> Match document (DOMAIN = documents that exist)
  balls,     \* ball log: match id -> innings id -> sequence of ball documents in timestamp order
  undoCall,  \* calls in flight: client -> position of its undoLastBall (between the tail query and
             \* the transaction), of its switchToSecondInnings (between getDoc and updateDoc) or
             \* of its recordBall (between the read and the commit of the transaction)
  last,      \* the most recent call and its outcome (what the caller observes)
  showBowlerSelector  \* match id -> TRUE while a scorer page of the match shows "Select New Bowler"

vars == <<matches, balls, undoCall, last, showBowlerSelector>>

----------------------------------------------------------------------------
(* Bounds of the exploration *)

MaxLog == 8         \* deliveries kept in the log of one innings
PrefixDots == 5     \* dot balls bowled before the exploration starts
MaxSpecial == 1     \* deliveries other than a dot ball in the logs of one match
MaxRun == 2         \* deliveries of a run that is recorded and then undone
MaxRaceLog == 2     \* deliveries in the log while undo calls race with the scorer
MaxOwnerLog == 1    \* deliveries in the log of each match of one owner
MaxSquadLog == 1    \* deliveries in the log while the squads are edited

Range(s) == {s[i] : i \in 1..Len(s)}

(* Identities *)

MatchIds == {"m1", "m2"}
InningsIds == {"1", "2"}
TeamIds == {"a", "b"}
Owner == "owner"
Scorer == "scorer"
Stranger == "stranger"
NoUser == "nobody"          \* auth.currentUser is null
Users == {Owner, Scorer, Stranger}
Clients == {"c1", "c2"}

(* A field that is absent from a document (undefined in the source) *)
Undefined == "undefined"
None == <<>>
Some(v) == <<v>>

Max(x, y) == IF x >= y THEN x ELSE y
truthy(id) == id # "" /\ id # Undefined

----------------------------------------------------------------------------
(* Enumerations of the domain types *)

SCHEDULED == "scheduled"
LIVE == "live"
COMPLETED == "completed"
ABANDONED == "abandoned"

WIDE == "wide"
NO_BALL == "no_ball"
BYE == "bye"
LEG_BYE == "leg_bye"
PENALTY == "penalty"

BOWLED == "bowled"
CAUGHT == "caught"
RUN_OUT == "run_out"
RETIRED == "retired"

----------------------------------------------------------------------------
(* Documents *)

defaultScore == [runs |-> 0, wickets |-> 0, overs |-> 0, balls |-> 0]

SquadA == <<"a1", "a2", "a3">>
SquadB == <<"b1", "b2", "b3">>
PlayerIds == Range(SquadA) \cup Range(SquadB)

\* player_stats: player id -> running totals, None for a player without an entry
emptyStats == [batters |-> [p \in PlayerIds |-> None], bowlers |-> [p \in PlayerIds |-> None]]

\* live_state of a freshly created match
defaultLiveState ==
  [ batting_team_id |-> "", bowling_team_id |-> "",
    striker_id |-> "", non_striker_id |-> "", bowler_id |-> "",
    score |-> defaultScore,
    this_over |-> <<>>,
    dismissed_batter_ids |-> <<>>,
    player_stats |-> emptyStats,
    is_free_hit |-> None,
    last_ball_id |-> None,
    last_bowler_id |-> Undefined,
    first_innings_total |-> None,
    first_batting_team_id |-> Undefined,
    second_batting_team_id |-> Undefined,
    current_innings |-> None ]

\* the Match document written by createMatch
newMatch(uid, totalOvers) ==
  [ owner_id |-> uid,
    authorized_user_ids |-> {uid},
    status |-> SCHEDULED,
    config |-> [total_overs |-> totalOvers],
    teams |-> [a |-> <<>>, b |-> <<>>],
    toss |-> None,
    live_state |-> defaultLiveState,
    result |-> None ]

----------------------------------------------------------------------------
(* Access control *)

userHasMatchAccess(match, uid) ==
  match.owner_id = uid \/ uid \in match.authorized_user_ids

----------------------------------------------------------------------------
(* Rules engine *)

\* variant: every ball belongs to the log of the first innings
getInningsIdAlwaysFirst(matchData) == "1"

getInningsId(matchData) ==
  IF matchData.toss = None THEN "1"
  ELSE LET tossWinner == matchData.toss[1].winner_id
           tossDecision == matchData.toss[1].decision
           currentBattingTeam == matchData.live_state.batting_team_id
       IN IF tossDecision = "bat"
          THEN (IF currentBattingTeam = tossWinner THEN "1" ELSE "2")
          ELSE (IF currentBattingTeam = tossWinner THEN "2" ELSE "1")

\* JSON.parse(JSON.stringify(state)): every value of a live state is a string,
\* a number, a boolean, an array or an object of those, absent fields stay absent
deepCloneState(state) == state

calculateRuns(ballInput) ==
  ballInput.runs_off_bat
    + (IF ballInput.extras = None THEN 0 ELSE ballInput.extras[1].runs)

extrasType(ballInput) ==
  IF ballInput.extras = None THEN Undefined ELSE ballInput.extras[1].type

\* variant: only a wide is an illegal delivery
isLegalDeliveryNoBallCounts(extras) ==
  IF extras = None THEN TRUE ELSE extras[1].type # WIDE

isLegalDelivery(extras) ==
  IF extras = None THEN TRUE ELSE extras[1].type \notin {WIDE, NO_BALL}

wicketCountsForBowler(type) ==
  IF type = Undefined THEN FALSE ELSE type \notin {RUN_OUT, RETIRED}

wicketPlayerId(ballInput) ==
  IF ballInput.wicket = None THEN Undefined ELSE ballInput.wicket[1].player_id

----------------------------------------------------------------------------
(* Ball processor: the transaction body of recordBall *)

battingTeamSize(matchData) ==
  LET battingTeamId == matchData.live_state.batting_team_id
  IN IF battingTeamId \in TeamIds THEN Len(matchData.teams[battingTeamId]) ELSE 0

maxWicketsBeforeAllOut(matchData) == Max(battingTeamSize(matchData) - 1, 0)

\* "Innings complete. All available batters have been dismissed."
allBattersDismissed(matchData) ==
  /\ maxWicketsBeforeAllOut(matchData) > 0
  /\ matchData.live_state.score.wickets >= maxWicketsBeforeAllOut(matchData)

\* TRUE when the batter may bat on (the source throws otherwise)
ensureBatterEligible(liveState, batterId) ==
  ~(truthy(batterId) /\ batterId \in Range(liveState.dismissed_batter_ids))

\* "Innings complete! N overs have been bowled."
oversComplete(matchData) ==
  matchData.live_state.score.overs >= matchData.config.total_overs

\* "Over is complete. Please select a new bowler before recording the next ball."
bowlerSelectionPending(liveState) ==
  /\ liveState.score.balls = 0
  /\ liveState.score.overs > 0
  /\ truthy(liveState.bowler_id)
  /\ truthy(liveState.last_bowler_id)
  /\ liveState.bowler_id = liveState.last_bowler_id

\* "A bowler cannot bowl consecutive overs."
consecutiveOvers(liveState) ==
  /\ truthy(liveState.bowler_id)
  /\ truthy(liveState.last_bowler_id)
  /\ liveState.bowler_id = liveState.last_bowler_id

\* variant: looks up the striker in place of the player the wicket names
wicketAlreadyDismissedStriker(liveState, ballInput) ==
  /\ truthy(wicketPlayerId(ballInput))
  /\ liveState.striker_id \in Range(liveState.dismissed_batter_ids)

\* "This batter has already been dismissed."
wicketAlreadyDismissed(liveState, ballInput) ==
  /\ truthy(wicketPlayerId(ballInput))
  /\ wicketPlayerId(ballInput) \in Range(liveState.dismissed_batter_ids)

\* variant: the two checks on the bowler left out
recordBallErrorNoBowlerCheck(store, matchId, uid, ballInput) ==
  IF uid = NoUser THEN "unauthenticated"
  ELSE IF matchId \notin DOMAIN store THEN "not_found"
  ELSE IF ~userHasMatchAccess(store[matchId], uid) THEN "permission_denied"
  ELSE IF store[matchId].status # LIVE THEN "not_live"
  ELSE IF allBattersDismissed(store[matchId]) THEN "all_out"
  ELSE IF ~ensureBatterEligible(store[matchId].live_state, store[matchId].live_state.striker_id)
       THEN "striker_dismissed"
  ELSE IF ~ensureBatterEligible(store[matchId].live_state, store[matchId].live_state.non_striker_id)
       THEN "non_striker_dismissed"
  ELSE IF oversComplete(store[matchId]) THEN "overs_complete"
  ELSE IF wicketAlreadyDismissed(store[matchId].live_state, ballInput) THEN "already_dismissed"
  ELSE "none"

\* the error recordBall ends with, in the order the source raises them; "none" when it commits
recordBallError(store, matchId, uid, ballInput) ==
  IF uid = NoUser THEN "unauthenticated"
  ELSE IF matchId \notin DOMAIN store THEN "not_found"
  ELSE IF ~userHasMatchAccess(store[matchId], uid) THEN "permission_denied"
  ELSE IF store[matchId].status # LIVE THEN "not_live"
  ELSE IF allBattersDismissed(store[matchId]) THEN "all_out"
  ELSE IF ~ensureBatterEligible(store[matchId].live_state, store[matchId].live_state.striker_id)
       THEN "striker_dismissed"
  ELSE IF ~ensureBatterEligible(store[matchId].live_state, store[matchId].live_state.non_striker_id)
       THEN "non_striker_dismissed"
  ELSE IF oversComplete(store[matchId]) THEN "overs_complete"
  ELSE IF bowlerSelectionPending(store[matchId].live_state) THEN "bowler_pending"
  ELSE IF consecutiveOvers(store[matchId].live_state) THEN "consecutive_overs"
  ELSE IF wicketAlreadyDismissed(store[matchId].live_state, ballInput) THEN "already_dismissed"
  ELSE "none"

\* variant: the sixth legal delivery does not close the over
scoreAfterOverLeftOpen(score, ballInput) ==
  [ runs |-> score.runs + calculateRuns(ballInput),
    wickets |-> score.wickets + (IF truthy(wicketPlayerId(ballInput)) THEN 1 ELSE 0),
    overs |-> score.overs,
    balls |-> IF isLegalDelivery(ballInput.extras) THEN score.balls + 1 ELSE score.balls ]

\* variant: the extras of the delivery are left out of the runs
scoreAfterBatRunsOnly(score, ballInput) ==
  LET legalDelivery == isLegalDelivery(ballInput.extras)
      balls1 == IF legalDelivery THEN score.balls + 1 ELSE score.balls
  IN [ runs |-> score.runs + ballInput.runs_off_bat,
       wickets |-> score.wickets + (IF truthy(wicketPlayerId(ballInput)) THEN 1 ELSE 0),
       overs |-> IF legalDelivery /\ balls1 >= 6 THEN score.overs + 1 ELSE score.overs,
       balls |-> IF legalDelivery /\ balls1 >= 6 THEN 0 ELSE balls1 ]

\* score after the delivery
scoreAfter(score, ballInput) ==
  LET legalDelivery == isLegalDelivery(ballInput.extras)
      balls1 == IF legalDelivery THEN score.balls + 1 ELSE score.balls
  IN [ runs |-> score.runs + calculateRuns(ballInput),
       wickets |-> score.wickets + (IF truthy(wicketPlayerId(ballInput)) THEN 1 ELSE 0),
       overs |-> IF legalDelivery /\ balls1 >= 6 THEN score.overs + 1 ELSE score.overs,
       balls |-> IF legalDelivery /\ balls1 >= 6 THEN 0 ELSE balls1 ]

overCompleted(score, ballInput) ==
  isLegalDelivery(ballInput.extras) /\ score.balls + 1 >= 6

\* variant: every legal delivery makes its bowler the last bowler
lastBowlerAfterAnyBall(liveState, ballInput) ==
  IF isLegalDelivery(ballInput.extras)
  THEN liveState.bowler_id
  ELSE liveState.last_bowler_id

\* last_bowler_id after the delivery: the bowler of an over just completed
lastBowlerAfter(liveState, ballInput) ==
  IF overCompleted(liveState.score, ballInput)
  THEN liveState.bowler_id
  ELSE liveState.last_bowler_id

\* variant: a batter run out is not entered in the dismissed set
dismissedAfterRunOutLeftOut(dismissed, ballInput) ==
  IF truthy(wicketPlayerId(ballInput)) /\ ballInput.wicket[1].type # RUN_OUT
  THEN Append(dismissed, wicketPlayerId(ballInput))
  ELSE dismissed

\* dismissed set after the delivery (insertion order of the Set)
dismissedAfter(dismissed, ballInput) ==
  IF truthy(wicketPlayerId(ballInput))
  THEN Append(dismissed, wicketPlayerId(ballInput))
  ELSE dismissed

incrementStrikerBall(ballInput) ==
  extrasType(ballInput) # WIDE /\ extrasType(ballInput) # NO_BALL

battersAfter(batters, strikerId, ballInput) ==
  IF truthy(strikerId)
  THEN LET existingBatter == IF batters[strikerId] = None
                             THEN [runs |-> 0, balls |-> 0]
                             ELSE batters[strikerId][1]
       IN [batters EXCEPT ![strikerId] =
             Some([ runs |-> existingBatter.runs + ballInput.runs_off_bat,
                    balls |-> existingBatter.balls
                                + (IF incrementStrikerBall(ballInput) THEN 1 ELSE 0) ])]
  ELSE batters

\* variant: byes and leg-byes are charged to the bowler
creditedRunsWithByes(ballInput) == calculateRuns(ballInput)

creditedRuns(ballInput) ==
  IF extrasType(ballInput) = BYE \/ extrasType(ballInput) = LEG_BYE
  THEN 0 ELSE calculateRuns(ballInput)

bowlersAfter(bowlers, bowlerId, ballInput) ==
  IF truthy(bowlerId)
  THEN LET existingBowler == IF bowlers[bowlerId] = None
                             THEN [runs |-> 0, balls |-> 0, wickets |-> 0]
                             ELSE bowlers[bowlerId][1]
           wicketType == IF ballInput.wicket = None THEN Undefined ELSE ballInput.wicket[1].type
       IN [bowlers EXCEPT ![bowlerId] =
             Some([ runs |-> existingBowler.runs + creditedRuns(ballInput),
                    balls |-> existingBowler.balls
                                + (IF isLegalDelivery(ballInput.extras) THEN 1 ELSE 0),
                    wickets |-> existingBowler.wickets
                                + (IF truthy(wicketPlayerId(ballInput))
                                      /\ wicketCountsForBowler(wicketType)
                                   THEN 1 ELSE 0) ])]
  ELSE bowlers

\* the crease after wicket handling, before rotation
creaseAfterWicket(liveState, ballInput) ==
  IF truthy(wicketPlayerId(ballInput))
  THEN IF ballInput.wicket[1].is_striker_out
       THEN [striker_id |-> "", non_striker_id |-> liveState.non_striker_id]
       ELSE [striker_id |-> liveState.striker_id, non_striker_id |-> ""]
  ELSE [striker_id |-> liveState.striker_id, non_striker_id |-> liveState.non_striker_id]

\* variant: the batters change ends on odd runs or at the end of the over, but not on both
shouldRotateEitherNotBoth(ballInput, overJustCompleted, crease) ==
  /\ (ballInput.runs_off_bat % 2 = 1) # overJustCompleted
  /\ truthy(crease.striker_id)
  /\ truthy(crease.non_striker_id)

\* variant: the batters change ends on odd runs only
shouldRotateOddRuns(ballInput, overJustCompleted, crease) ==
  /\ ballInput.runs_off_bat % 2 = 1
  /\ truthy(crease.striker_id)
  /\ truthy(crease.non_striker_id)

shouldRotate(ballInput, overJustCompleted, crease) ==
  /\ (ballInput.runs_off_bat % 2 = 1 \/ overJustCompleted)
  /\ truthy(crease.striker_id)
  /\ truthy(crease.non_striker_id)

\* `${preOvers}_${preBalls}${illegalSuffix}`
ballIdentifier(preScore, ballInput, now) ==
  [ overs |-> preScore.overs, balls |-> preScore.balls,
    suffix |-> IF isLegalDelivery(ballInput.extras) THEN None ELSE Some(now) ]

eventExtras(ballInput) ==
  IF ballInput.extras = None THEN None
  ELSE Some([type |-> ballInput.extras[1].type, runs |-> ballInput.extras[1].runs])

eventWicket(ballInput) ==
  IF ballInput.wicket = None THEN None
  ELSE Some([is_out |-> TRUE, type |-> ballInput.wicket[1].type,
             player_id |-> ballInput.wicket[1].player_id])

lastSix(s) == IF Len(s) > 6 THEN SubSeq(s, Len(s) - 5, Len(s)) ELSE s

\* live_state written by a recordBall that passed every check
liveStateAfter(liveState, ballInput, now) ==
  LET over1 == overCompleted(liveState.score, ballInput)
      crease == creaseAfterWicket(liveState, ballInput)
      rotate == shouldRotate(ballInput, over1, crease)
      id == ballIdentifier(liveState.score, ballInput, now)
      overEntry == [ id |-> id, runs_off_bat |-> ballInput.runs_off_bat,
                     extras |-> eventExtras(ballInput), wicket |-> eventWicket(ballInput) ]
  IN [ liveState EXCEPT
         !.score = scoreAfter(liveState.score, ballInput),
         !.last_bowler_id = lastBowlerAfter(liveState, ballInput),
         !.player_stats =
            [ batters |-> battersAfter(liveState.player_stats.batters,
                                       liveState.striker_id, ballInput),
              bowlers |-> bowlersAfter(liveState.player_stats.bowlers,
                                       liveState.bowler_id, ballInput) ],
         !.dismissed_batter_ids = dismissedAfter(liveState.dismissed_batter_ids, ballInput),
         !.striker_id = IF rotate THEN crease.non_striker_id ELSE crease.striker_id,
         !.non_striker_id = IF rotate THEN crease.striker_id ELSE crease.non_striker_id,
         !.is_free_hit = Some(extrasType(ballInput) = NO_BALL),
         !.last_ball_id = Some(id),
         !.this_over = lastSix(Append(liveState.this_over, overEntry)) ]

\* variant: the snapshot before the ball is the object the processor then updates
ballEventAliased(matchId, matchData, ballInput, now) ==
  [ id |-> ballIdentifier(matchData.live_state.score, ballInput, now),
    match_id |-> matchId,
    innings_id |-> getInningsId(matchData),
    runs_off_bat |-> ballInput.runs_off_bat,
    extras |-> eventExtras(ballInput),
    wicket |-> eventWicket(ballInput),
    pre_ball_state |-> liveStateAfter(deepCloneState(matchData.live_state), ballInput, now),
    post_ball_state |-> liveStateAfter(deepCloneState(matchData.live_state), ballInput, now) ]

ballEvent(matchId, matchData, ballInput, now) ==
  [ id |-> ballIdentifier(matchData.live_state.score, ballInput, now),
    match_id |-> matchId,
    innings_id |-> getInningsId(matchData),
    runs_off_bat |-> ballInput.runs_off_bat,
    extras |-> eventExtras(ballInput),
    wicket |-> eventWicket(ballInput),
    pre_ball_state |-> deepCloneState(matchData.live_state),
    post_ball_state |-> liveStateAfter(deepCloneState(matchData.live_state), ballInput, now) ]

\* variant: the chase is won on reaching the total of the first innings
matchResultPayloadLevelWins(matchData, liveState) ==
  IF liveState.current_innings # Some(2) \/ liveState.first_innings_total = None
  THEN None
  ELSE
    LET firstInningsRuns == liveState.first_innings_total[1]
        target == firstInningsRuns
        chasingRuns == liveState.score.runs
        wicketsLost == liveState.score.wickets
        chasingTeamId == IF liveState.second_batting_team_id # Undefined
                         THEN liveState.second_batting_team_id
                         ELSE liveState.batting_team_id
        defendingTeamId == IF liveState.first_batting_team_id # Undefined
                           THEN liveState.first_batting_team_id
                           ELSE liveState.bowling_team_id
        chasingTeamSize == IF chasingTeamId \in TeamIds
                           THEN Len(matchData.teams[chasingTeamId]) ELSE 0
        maxChasingWickets == Max(chasingTeamSize - 1, 1)
        wicketsRemaining == Max(0, maxChasingWickets - wicketsLost)
        totalBalls == matchData.config.total_overs * 6
        ballsBowled == liveState.score.overs * 6 + liveState.score.balls
        ballsRemaining == Max(0, totalBalls - ballsBowled)
        allOvers == /\ liveState.score.overs >= matchData.config.total_overs
                    /\ liveState.score.balls = 0
        allOut == wicketsRemaining = 0
    IN IF chasingRuns >= target
       THEN Some([ type |-> "win",
                   winner_team_id |-> chasingTeamId,
                   loser_team_id |-> defendingTeamId,
                   margin |-> IF wicketsRemaining > 0
                              THEN [n |-> wicketsRemaining, unit |-> "wicket"]
                              ELSE [n |-> ballsRemaining, unit |-> "ball"],
                   first_innings_runs |-> firstInningsRuns,
                   second_innings_runs |-> chasingRuns ])
       ELSE IF allOut \/ allOvers
       THEN IF chasingRuns = firstInningsRuns
            THEN Some([ type |-> "tie",
                        winner_team_id |-> Undefined,
                        loser_team_id |-> Undefined,
                        margin |-> [n |-> 0, unit |-> Undefined],
                        first_innings_runs |-> firstInningsRuns,
                        second_innings_runs |-> chasingRuns ])
            ELSE Some([ type |-> "win",
                        winner_team_id |-> defendingTeamId,
                        loser_team_id |-> chasingTeamId,
                        margin |-> [n |-> firstInningsRuns - chasingRuns, unit |-> "run"],
                        first_innings_runs |-> firstInningsRuns,
                        second_innings_runs |-> chasingRuns ])
       ELSE None

\* result of the match after the delivery, None while the match goes on
matchResultPayload(matchData, liveState) ==
  IF liveState.current_innings # Some(2) \/ liveState.first_innings_total = None
  THEN None
  ELSE
    LET firstInningsRuns == liveState.first_innings_total[1]
        target == firstInningsRuns + 1
        chasingRuns == liveState.score.runs
        wicketsLost == liveState.score.wickets
        chasingTeamId == IF liveState.second_batting_team_id # Undefined
                         THEN liveState.second_batting_team_id
                         ELSE liveState.batting_team_id
        defendingTeamId == IF liveState.first_batting_team_id # Undefined
                           THEN liveState.first_batting_team_id
                           ELSE liveState.bowling_team_id
        chasingTeamSize == IF chasingTeamId \in TeamIds
                           THEN Len(matchData.teams[chasingTeamId]) ELSE 0
        maxChasingWickets == Max(chasingTeamSize - 1, 1)
        wicketsRemaining == Max(0, maxChasingWickets - wicketsLost)
        totalBalls == matchData.config.total_overs * 6
        ballsBowled == liveState.score.overs * 6 + liveState.score.balls
        ballsRemaining == Max(0, totalBalls - ballsBowled)
        allOvers == /\ liveState.score.overs >= matchData.config.total_overs
                    /\ liveState.score.balls = 0
        allOut == wicketsRemaining = 0
    IN IF chasingRuns >= target
       THEN Some([ type |-> "win",
                   winner_team_id |-> chasingTeamId,
                   loser_team_id |-> defendingTeamId,
                   margin |-> IF wicketsRemaining > 0
                              THEN [n |-> wicketsRemaining, unit |-> "wicket"]
                              ELSE [n |-> ballsRemaining, unit |-> "ball"],
                   first_innings_runs |-> firstInningsRuns,
                   second_innings_runs |-> chasingRuns ])
       ELSE IF allOut \/ allOvers
       THEN IF chasingRuns = firstInningsRuns
            THEN Some([ type |-> "tie",
                        winner_team_id |-> Undefined,
                        loser_team_id |-> Undefined,
                        margin |-> [n |-> 0, unit |-> Undefined],
                        first_innings_runs |-> firstInningsRuns,
                        second_innings_runs |-> chasingRuns ])
            ELSE Some([ type |-> "win",
                        winner_team_id |-> defendingTeamId,
                        loser_team_id |-> chasingTeamId,
                        margin |-> [n |-> firstInningsRuns - chasingRuns, unit |-> "run"],
                        first_innings_runs |-> firstInningsRuns,
                        second_innings_runs |-> chasingRuns ])
       ELSE None

----------------------------------------------------------------------------
(* The store: db.matches is the "matches" collection, db.balls the ball logs. *)
(* Every operation is a function from a store to an outcome [err, db]; err is *)
(* "none" when the call commits and the store is the one it was given when    *)
(* the call throws.                                                           *)

emptyLogs == [m \in MatchIds |-> [i \in InningsIds |-> <<>>]]
emptyDb == [matches |-> <<>>, balls |-> emptyLogs]

fail(db, e) == [err |-> e, db |-> db]
ok(db) == [err |-> "none", db |-> db]

\* doc(ballsCollection): a document id the collection does not hold and no caller holds
newBallRef(log, held) ==
  CHOOSE n \in 1..(Len(log) + Cardinality(held) + 1) :
    /\ n \notin held
    /\ \A i \in 1..Len(log) : log[i].ref # n
    /\ \A k \in 1..(n - 1) : k \in held \/ \E i \in 1..Len(log) : log[i].ref = k

\* variant: the result is attached but the status is left as it was
recordBallWritesKeepStatus(db, matchId, ballInput, now, held) ==
  LET matchData == db.matches[matchId]
      event == ballEvent(matchId, matchData, ballInput, now)
      liveState == event.post_ball_state
      result == matchResultPayload(matchData, liveState)
      inningsId == event.innings_id
      ballDoc == [ref |-> newBallRef(db.balls[matchId][inningsId], held), data |-> event]
  IN [ matches |-> [db.matches EXCEPT
                      ![matchId] = [ @ EXCEPT
                          !.live_state = liveState,
                          !.result = IF result # None THEN result ELSE @ ]],
       balls |-> [db.balls EXCEPT ![matchId][inningsId] = Append(@, ballDoc)] ]

\* variant: the ball document is stored under the ball identifier, doc(ballsCollection, id)
recordBallWritesKeyedById(db, matchId, ballInput, now, held) ==
  LET matchData == db.matches[matchId]
      event == ballEvent(matchId, matchData, ballInput, now)
      liveState == event.post_ball_state
      result == matchResultPayload(matchData, liveState)
      inningsId == event.innings_id
      ballDoc == [ref |-> newBallRef(db.balls[matchId][inningsId], held), data |-> event]
  IN [ matches |-> [db.matches EXCEPT
                      ![matchId] = [ @ EXCEPT
                          !.live_state = liveState,
                          !.status = IF result # None THEN COMPLETED ELSE @,
                          !.result = IF result # None THEN result ELSE @ ]],
       balls |-> [db.balls EXCEPT ![matchId][inningsId] =
                    IF \E i \in 1..Len(@) : @[i].data.id = event.id
                    THEN [i \in 1..Len(@) |-> IF @[i].data.id = event.id
                                              THEN [ref |-> @[i].ref, data |-> event]
                                              ELSE @[i]]
                    ELSE Append(@, ballDoc)] ]

\* the two writes of the scoring transaction: transaction.set(ballDoc), transaction.update(matchRef)
recordBallWrites(db, matchId, ballInput, now, held) ==
  LET matchData == db.matches[matchId]
      event == ballEvent(matchId, matchData, ballInput, now)
      liveState == event.post_ball_state
      result == matchResultPayload(matchData, liveState)
      inningsId == event.innings_id
      ballDoc == [ref |-> newBallRef(db.balls[matchId][inningsId], held), data |-> event]
  IN [ matches |-> [db.matches EXCEPT
                      ![matchId] = [ @ EXCEPT
                          !.live_state = liveState,
                          !.status = IF result # None THEN COMPLETED ELSE @,
                          !.result = IF result # None THEN result ELSE @ ]],
       balls |-> [db.balls EXCEPT ![matchId][inningsId] = Append(@, ballDoc)] ]

recordBall(db, matchId, uid, ballInput, now, held) ==
  LET e == recordBallError(db.matches, matchId, uid, ballInput)
  IN IF e # "none" THEN fail(db, e)
     ELSE ok(recordBallWrites(db, matchId, ballInput, now, held))

----------------------------------------------------------------------------
(* Undo processor *)

\* undoLastBall before its transaction: the match read and the log-tail query
\* (orderBy timestamp desc, limit 1)
undoQuery(db, matchId, uid) ==
  IF uid = NoUser THEN [err |-> "unauthenticated", innings |-> "1", ref |-> 0]
  ELSE IF matchId \notin DOMAIN db.matches THEN [err |-> "not_found", innings |-> "1", ref |-> 0]
  ELSE IF ~userHasMatchAccess(db.matches[matchId], uid)
       THEN [err |-> "permission_denied", innings |-> "1", ref |-> 0]
  ELSE LET inningsId == getInningsId(db.matches[matchId])
           log == db.balls[matchId][inningsId]
       IN IF Len(log) = 0
          THEN [err |-> "empty_log", innings |-> inningsId, ref |-> 0]
          ELSE [err |-> "none", innings |-> inningsId, ref |-> log[Len(log)].ref]

ballDocExists(log, ref) == \E i \in 1..Len(log) : log[i].ref = ref
ballDocData(log, ref) == log[CHOOSE i \in 1..Len(log) : log[i].ref = ref].data
deleteBallDoc(log, ref) == SelectSeq(log, LAMBDA d : d.ref # ref)

\* variant: the start of an over is not told apart
atOverStartNever(liveState) == FALSE

\* "we're at the start of a new over"
atOverStart(liveState) == liveState.score.balls = 0 /\ liveState.score.overs > 0

\* variant: the undo leaves no free hit standing
restoredStateNoFreeHit(ballData) ==
  LET restored == [deepCloneState(ballData.pre_ball_state) EXCEPT !.is_free_hit = Some(FALSE)]
  IN IF atOverStart(restored)
     THEN [restored EXCEPT !.last_bowler_id = Undefined]
     ELSE restored

\* the state undo writes back: the snapshot, last_bowler_id dropped at an over boundary
restoredState(ballData) ==
  LET restored == deepCloneState(ballData.pre_ball_state)
  IN IF atOverStart(restored)
     THEN [restored EXCEPT !.last_bowler_id = Undefined]
     ELSE restored

\* the transaction of undoLastBall on the ball document found by the query.
\* restoredState.last_bowler_id = undefined reaches transaction.update: the store drops
\* the field when it is set up to ignore undefined properties and rejects the write
\* ("Unsupported field value: undefined") when it is not
\* variant: the undo leaves the result of the match in place
undoTransactionKeepResult(db, matchId, uid, inningsId, ref, ignoreUndefinedProperties) ==
  IF matchId \notin DOMAIN db.matches THEN fail(db, "not_found")
  ELSE IF ~userHasMatchAccess(db.matches[matchId], uid) THEN fail(db, "permission_denied")
  ELSE IF ~ballDocExists(db.balls[matchId][inningsId], ref) THEN fail(db, "already_removed")
  ELSE IF /\ ~ignoreUndefinedProperties
          /\ atOverStart(ballDocData(db.balls[matchId][inningsId], ref).pre_ball_state)
       THEN fail(db, "invalid_data")
  ELSE ok([ matches |-> [db.matches EXCEPT
                           ![matchId] = [ @ EXCEPT
                               !.live_state =
                                  restoredState(ballDocData(db.balls[matchId][inningsId], ref)),
                               !.status = LIVE ]],
            balls |-> [db.balls EXCEPT ![matchId][inningsId] = deleteBallDoc(@, ref)] ])

undoTransaction(db, matchId, uid, inningsId, ref, ignoreUndefinedProperties) ==
  IF matchId \notin DOMAIN db.matches THEN fail(db, "not_found")
  ELSE IF ~userHasMatchAccess(db.matches[matchId], uid) THEN fail(db, "permission_denied")
  ELSE IF ~ballDocExists(db.balls[matchId][inningsId], ref) THEN fail(db, "already_removed")
  ELSE IF /\ ~ignoreUndefinedProperties
          /\ atOverStart(ballDocData(db.balls[matchId][inningsId], ref).pre_ball_state)
       THEN fail(db, "invalid_data")
  ELSE ok([ matches |-> [db.matches EXCEPT
                           ![matchId] = [ @ EXCEPT
                               !.live_state =
                                  restoredState(ballDocData(db.balls[matchId][inningsId], ref)),
                               !.status = LIVE,
                               !.result = None ]],
            balls |-> [db.balls EXCEPT ![matchId][inningsId] = deleteBallDoc(@, ref)] ])

\* undoLastBall run with no other call between its query and its transaction
undoLastBall(db, matchId, uid, ignoreUndefinedProperties) ==
  LET q == undoQuery(db, matchId, uid)
  IN IF q.err # "none" THEN fail(db, q.err)
     ELSE undoTransaction(db, matchId, uid, q.innings, q.ref, ignoreUndefinedProperties)

----------------------------------------------------------------------------
(* Match lifecycle manager *)

\* variant: the match loads for any signed-in user
loadMatchForUpdateAnyUser(db, matchId, uid) ==
  IF uid = NoUser THEN "unauthenticated"
  ELSE IF matchId \notin DOMAIN db.matches THEN "not_found"
  ELSE "none"

\* the error of ensureAuthenticatedUser + getDoc + assertMatchAccess, "none" when the match loads
loadMatchForUpdate(db, matchId, uid) ==
  IF uid = NoUser THEN "unauthenticated"
  ELSE IF matchId \notin DOMAIN db.matches THEN "not_found"
  ELSE IF ~userHasMatchAccess(db.matches[matchId], uid) THEN "permission_denied"
  ELSE "none"

\* TRUE when the owner has a match in status live
getActiveMatch(db, userId) ==
  \E m \in DOMAIN db.matches :
    db.matches[m].status = LIVE /\ db.matches[m].owner_id = userId

\* addDoc: the id of the new match document
newMatchId(db) == CHOOSE m \in MatchIds : m \notin DOMAIN db.matches

createMatch(db, uid, totalOvers) ==
  IF uid = NoUser THEN fail(db, "unauthenticated")
  ELSE IF getActiveMatch(db, uid) THEN fail(db, "already_in_progress")
  ELSE ok([db EXCEPT !.matches = (newMatchId(db) :> newMatch(uid, totalOvers)) @@ @])

otherTeam(teamId) == IF teamId = "a" THEN "b" ELSE "a"

updateToss(db, matchId, uid, toss) ==
  LET e == loadMatchForUpdate(db, matchId, uid)
      battingTeamId == IF toss.decision = "bat" THEN toss.winner_id ELSE otherTeam(toss.winner_id)
      bowlingTeamId == IF toss.decision = "bat" THEN otherTeam(toss.winner_id) ELSE toss.winner_id
  IN IF e # "none" THEN fail(db, e)
     ELSE ok([db EXCEPT !.matches[matchId] = [ @ EXCEPT
                !.toss = Some([winner_id |-> toss.winner_id, decision |-> toss.decision]),
                !.live_state.batting_team_id = battingTeamId,
                !.live_state.bowling_team_id = bowlingTeamId,
                !.live_state.first_batting_team_id = battingTeamId,
                !.live_state.second_batting_team_id = bowlingTeamId,
                !.live_state.current_innings = Some(1) ]])

addPlayerToSquad(db, matchId, uid, teamId, player) ==
  LET e == loadMatchForUpdate(db, matchId, uid)
  IN IF e # "none" THEN fail(db, e)
     ELSE IF db.matches[matchId].status \in {COMPLETED, ABANDONED} THEN fail(db, "cannot_add")
     ELSE IF player \in Range(db.matches[matchId].teams[teamId]) THEN fail(db, "already_in_squad")
     ELSE IF player \in Range(db.matches[matchId].teams[otherTeam(teamId)])
          THEN fail(db, "already_in_squad")
     ELSE ok([db EXCEPT !.matches[matchId].teams[teamId] = Append(@, player)])

removePlayerFromSquad(db, matchId, uid, teamId, playerId) ==
  LET e == loadMatchForUpdate(db, matchId, uid)
  IN IF e # "none" THEN fail(db, e)
     ELSE IF db.matches[matchId].status \in {COMPLETED, ABANDONED} THEN fail(db, "cannot_modify")
     ELSE IF playerId \notin Range(db.matches[matchId].teams[teamId]) THEN fail(db, "not_in_squad")
     ELSE ok([db EXCEPT !.matches[matchId].teams[teamId] =
                            SelectSeq(@, LAMBDA p : p # playerId)])

\* variant: a match starts without a look at its squads
startMatchAnySquads(db, matchId, uid, openers) ==
  LET e == loadMatchForUpdate(db, matchId, uid)
  IN IF e # "none" THEN fail(db, e)
     ELSE IF db.matches[matchId].status # SCHEDULED THEN fail(db, "not_scheduled")
     ELSE IF db.matches[matchId].toss = None THEN fail(db, "toss_missing")
     ELSE ok([db EXCEPT !.matches[matchId] = [ @ EXCEPT
                !.status = LIVE,
                !.live_state.striker_id = openers.striker_id,
                !.live_state.non_striker_id = openers.non_striker_id,
                !.live_state.bowler_id = openers.bowler_id,
                !.live_state.this_over = <<>> ]])

startMatch(db, matchId, uid, openers) ==
  LET e == loadMatchForUpdate(db, matchId, uid)
  IN IF e # "none" THEN fail(db, e)
     ELSE IF db.matches[matchId].status # SCHEDULED THEN fail(db, "not_scheduled")
     ELSE IF db.matches[matchId].toss = None THEN fail(db, "toss_missing")
     ELSE IF Len(db.matches[matchId].teams.a) = 0 \/ Len(db.matches[matchId].teams.b) = 0
          THEN fail(db, "squad_empty")
     ELSE ok([db EXCEPT !.matches[matchId] = [ @ EXCEPT
                !.status = LIVE,
                !.live_state.striker_id = openers.striker_id,
                !.live_state.non_striker_id = openers.non_striker_id,
                !.live_state.bowler_id = openers.bowler_id,
                !.live_state.this_over = <<>> ]])

\* variant: the bowler of the last over of the first innings stays recorded
switchToSecondInningsKeepLastBowler(db, matchId, uid, openers) ==
  LET e == loadMatchForUpdate(db, matchId, uid)
  IN IF e # "none" THEN fail(db, e)
     ELSE IF db.matches[matchId].status # LIVE THEN fail(db, "not_live")
     ELSE
       LET matchData == db.matches[matchId]
           currentBattingTeam == matchData.live_state.batting_team_id
           currentBowlingTeam == matchData.live_state.bowling_team_id
           firstInningsTotal == matchData.live_state.score.runs
           firstBattingTeam == IF matchData.live_state.first_batting_team_id # Undefined
                               THEN matchData.live_state.first_batting_team_id
                               ELSE currentBattingTeam
           newBattingTeam == currentBowlingTeam
           newBowlingTeam == currentBattingTeam
       IN IF \/ openers.striker_id \notin Range(matchData.teams[newBattingTeam])
             \/ openers.non_striker_id \notin Range(matchData.teams[newBattingTeam])
          THEN fail(db, "openers_not_batting")
          ELSE IF openers.bowler_id \notin Range(matchData.teams[newBowlingTeam])
          THEN fail(db, "bowler_not_bowling")
          ELSE ok([db EXCEPT !.matches[matchId].live_state = [ @ EXCEPT
                     !.batting_team_id = newBattingTeam,
                     !.bowling_team_id = newBowlingTeam,
                     !.striker_id = openers.striker_id,
                     !.non_striker_id = openers.non_striker_id,
                     !.bowler_id = openers.bowler_id,
                     !.score = defaultScore,
                     !.first_innings_total = Some(firstInningsTotal),
                     !.current_innings = Some(2),
                     !.first_batting_team_id = firstBattingTeam,
                     !.second_batting_team_id = newBattingTeam,
                     !.player_stats = emptyStats,
                     !.dismissed_batter_ids = <<>>,
                     !.this_over = <<>>,
                     !.is_free_hit = Some(FALSE) ]])

switchToSecondInnings(db, matchId, uid, openers) ==
  LET e == loadMatchForUpdate(db, matchId, uid)
  IN IF e # "none" THEN fail(db, e)
     ELSE IF db.matches[matchId].status # LIVE THEN fail(db, "not_live")
     ELSE
       LET matchData == db.matches[matchId]
           currentBattingTeam == matchData.live_state.batting_team_id
           currentBowlingTeam == matchData.live_state.bowling_team_id
           firstInningsTotal == matchData.live_state.score.runs
           firstBattingTeam == IF matchData.live_state.first_batting_team_id # Undefined
                               THEN matchData.live_state.first_batting_team_id
                               ELSE currentBattingTeam
           newBattingTeam == currentBowlingTeam
           newBowlingTeam == currentBattingTeam
       IN IF \/ openers.striker_id \notin Range(matchData.teams[newBattingTeam])
             \/ openers.non_striker_id \notin Range(matchData.teams[newBattingTeam])
          THEN fail(db, "openers_not_batting")
          ELSE IF openers.bowler_id \notin Range(matchData.teams[newBowlingTeam])
          THEN fail(db, "bowler_not_bowling")
          ELSE ok([db EXCEPT !.matches[matchId].live_state = [ @ EXCEPT
                     !.batting_team_id = newBattingTeam,
                     !.bowling_team_id = newBowlingTeam,
                     !.striker_id = openers.striker_id,
                     !.non_striker_id = openers.non_striker_id,
                     !.bowler_id = openers.bowler_id,
                     !.score = defaultScore,
                     !.first_innings_total = Some(firstInningsTotal),
                     !.current_innings = Some(2),
                     !.first_batting_team_id = firstBattingTeam,
                     !.second_batting_team_id = newBattingTeam,
                     !.player_stats = emptyStats,
                     !.dismissed_batter_ids = <<>>,
                     !.this_over = <<>>,
                     !.is_free_hit = Some(FALSE),
                     !.last_bowler_id = Undefined ]])

\* the updateDoc of switchToSecondInnings: the fields it writes, with the values
\* computed from the document matchData that its getDoc has read
switchUpdateDoc(db, matchId, matchData, openers) ==
  [db EXCEPT !.matches[matchId].live_state = [ @ EXCEPT
     !.batting_team_id = matchData.live_state.bowling_team_id,
     !.bowling_team_id = matchData.live_state.batting_team_id,
     !.striker_id = openers.striker_id,
     !.non_striker_id = openers.non_striker_id,
     !.bowler_id = openers.bowler_id,
     !.score = defaultScore,
     !.first_innings_total = Some(matchData.live_state.score.runs),
     !.current_innings = Some(2),
     !.first_batting_team_id = IF matchData.live_state.first_batting_team_id # Undefined
                               THEN matchData.live_state.first_batting_team_id
                               ELSE matchData.live_state.batting_team_id,
     !.second_batting_team_id = matchData.live_state.bowling_team_id,
     !.player_stats = emptyStats,
     !.dismissed_batter_ids = <<>>,
     !.this_over = <<>>,
     !.is_free_hit = Some(FALSE),
     !.last_bowler_id = Undefined ]]

rematchDoc(matchData, totalOvers) ==
  [ owner_id |-> matchData.owner_id,
    authorized_user_ids |-> IF matchData.authorized_user_ids # {}
                            THEN matchData.authorized_user_ids
                            ELSE {matchData.owner_id},
    status |-> SCHEDULED,
    config |-> [matchData.config EXCEPT !.total_overs = totalOvers],
    teams |-> [a |-> matchData.teams.a, b |-> matchData.teams.b],
    toss |-> None,
    live_state |-> [defaultLiveState EXCEPT !.is_free_hit = Some(FALSE),
                                            !.current_innings = Some(1)],
    result |-> None ]

createRematchWithSameSquads(db, matchId, uid, totalOvers) ==
  IF totalOvers < 1 \/ totalOvers > 50 THEN fail(db, "overs_range")
  ELSE LET e == loadMatchForUpdate(db, matchId, uid)
       IN IF e # "none" THEN fail(db, e)
          ELSE IF db.matches[matchId].status # COMPLETED THEN fail(db, "not_completed")
          ELSE ok([db EXCEPT !.matches =
                     (newMatchId(db) :> rematchDoc(db.matches[matchId], totalOvers)) @@ @])

\* variant: a match is ended whatever its status
endMatchAnyStatus(db, matchId, uid) ==
  LET e == loadMatchForUpdate(db, matchId, uid)
  IN IF e # "none" THEN fail(db, e)
     ELSE ok([db EXCEPT !.matches[matchId].status = COMPLETED])

endMatch(db, matchId, uid) ==
  LET e == loadMatchForUpdate(db, matchId, uid)
  IN IF e # "none" THEN fail(db, e)
     ELSE IF db.matches[matchId].status # LIVE THEN fail(db, "not_live")
     ELSE ok([db EXCEPT !.matches[matchId].status = COMPLETED])

----------------------------------------------------------------------------
(* Scorer page: the selections written straight to the match document *)

teamPlayers(matchData, teamId) ==
  IF teamId \in TeamIds THEN Range(matchData.teams[teamId]) ELSE {}

\* a player id shown at the crease: the id resolves to a player of the batting team
atCrease(matchData, id) ==
  IF id \in teamPlayers(matchData, matchData.live_state.batting_team_id) THEN {id} ELSE {}

availableNewBatters(matchData) ==
  teamPlayers(matchData, matchData.live_state.batting_team_id)
    \ (atCrease(matchData, matchData.live_state.striker_id)
         \cup atCrease(matchData, matchData.live_state.non_striker_id))

showNewBatterSelector(matchData) == matchData.live_state.striker_id = ""

handleNewBatterSelect(db, matchId, newBatterId) ==
  IF db.matches[matchId].status = COMPLETED THEN fail(db, "match_completed")
  ELSE ok([db EXCEPT !.matches[matchId].live_state.striker_id = newBatterId])

\* the over-completion effect of the page: the score moved from mid-over to the start of an over
overJustCompleted(prevScore, score) ==
  prevScore.balls > 0 /\ score.balls = 0 /\ score.overs > prevScore.overs

isInOverCompletionState(liveState) ==
  /\ liveState.score.balls = 0
  /\ liveState.score.overs > 0
  /\ truthy(liveState.bowler_id)
  /\ truthy(liveState.last_bowler_id)
  /\ liveState.bowler_id = liveState.last_bowler_id

\* showBowlerSelector after the pages have rendered the match document cur that replaced prev;
\* a page closes the panel when it has selected, a page that has not selected keeps it open
selectorAfter(shown, prev, cur) ==
  IF cur.status = COMPLETED THEN FALSE
  ELSE IF shown THEN TRUE
  ELSE /\ \/ overJustCompleted(prev.live_state.score, cur.live_state.score)
          \/ isInOverCompletionState(cur.live_state)
       /\ truthy(cur.live_state.bowler_id)
       /\ cur.live_state.score.overs < cur.config.total_overs

\* the first innings has reached its overs: the page offers the innings switch instead
inningsComplete(matchData) ==
  /\ (IF matchData.live_state.current_innings = None
      THEN 1 ELSE matchData.live_state.current_innings[1]) = 1
  /\ matchData.live_state.score.overs >= matchData.config.total_overs

availableNewBowlers(matchData) ==
  teamPlayers(matchData, matchData.live_state.bowling_team_id)
    \ {matchData.live_state.bowler_id, matchData.live_state.last_bowler_id}

handleNewBowlerSelect(db, matchId, newBowlerId) ==
  IF db.matches[matchId].status = COMPLETED THEN fail(db, "match_completed")
  ELSE IF newBowlerId = db.matches[matchId].live_state.last_bowler_id
       THEN fail(db, "just_completed_over")
  ELSE ok([db EXCEPT !.matches[matchId].live_state.bowler_id = newBowlerId])

----------------------------------------------------------------------------
(* State machine *)

db == [matches |-> matches, balls |-> balls]

idleCall == [pc |-> "idle", match |-> "", uid |-> "", innings |-> "1", ref |-> 0, snap |-> None]

\* ball documents held by undoLastBall calls that have run their query
heldRefs(matchId, inningsId) ==
  { undoCall[c].ref : c \in { k \in Clients : /\ undoCall[k].pc = "queried"
                                               /\ undoCall[k].match = matchId
                                               /\ undoCall[k].innings = inningsId } }

\* Date.now() of the id suffix of an illegal delivery
Clock == {1}

isDotBall(b) == b.runs_off_bat = 0 /\ b.extras = None /\ b.wicket = None

\* a delivery that is no dot ball, or that follows a selection or an undo
\* (its snapshot is not the state the delivery before it left)
isSpecial(log, i) ==
  \/ ~isDotBall(log[i].data)
  \/ i > 1 /\ log[i].data.pre_ball_state # log[i - 1].data.post_ball_state

specialsIn(log) == Cardinality({i \in 1..Len(log) : isSpecial(log, i)})

\* the special deliveries in the logs of a match
specials(store, matchId) ==
  specialsIn(store.balls[matchId]["1"]) + specialsIn(store.balls[matchId]["2"])

\* the part of the behaviours that is explored
withinBounds(store, matchId, maxLog, maxSpecial) ==
  /\ \A i \in InningsIds : Len(store.balls[matchId][i]) <= maxLog
  /\ specials(store, matchId) <= maxSpecial

\* the store and the caller's view after a call with outcome r
Commit(r, op, matchId) ==
  /\ matches' = r.db.matches
  /\ balls' = r.db.balls
  /\ last' = [op |-> op, err |-> r.err, match |-> matchId]
  /\ showBowlerSelector' =
       [m \in MatchIds |->
          /\ m \in DOMAIN matches
          /\ selectorAfter(showBowlerSelector[m], matches[m], r.db.matches[m])]

RecordBall(matchId, uid, ballInput, now, maxLog, maxSpecial) ==
  /\ matchId \in DOMAIN matches
  /\ LET r == recordBall(db, matchId, uid, ballInput, now,
                         heldRefs(matchId, getInningsId(matches[matchId])))
     IN /\ withinBounds(r.db, matchId, maxLog, maxSpecial)
        /\ Commit(r, "recordBall", matchId)
  /\ UNCHANGED undoCall

UndoLastBall(matchId, uid) ==
  /\ \E ignoreUndefinedProperties \in BOOLEAN :
       Commit(undoLastBall(db, matchId, uid, ignoreUndefinedProperties), "undoLastBall", matchId)
  /\ UNCHANGED undoCall

\* undoLastBall up to its transaction
UndoQuery(c, matchId, uid) ==
  /\ undoCall[c].pc = "idle"
  /\ LET q == undoQuery(db, matchId, uid)
     IN IF q.err # "none"
        THEN /\ Commit(fail(db, q.err), "undoLastBall", matchId)
             /\ UNCHANGED undoCall
        ELSE /\ undoCall' = [undoCall EXCEPT ![c] =
                  [pc |-> "queried", match |-> matchId, uid |-> uid,
                   innings |-> q.innings, ref |-> q.ref, snap |-> None]]
             /\ UNCHANGED <<matches, balls, last, showBowlerSelector>>

\* the transaction of undoLastBall
UndoTransaction(c) ==
  /\ undoCall[c].pc = "queried"
  /\ \E ignoreUndefinedProperties \in BOOLEAN :
       Commit(undoTransaction(db, undoCall[c].match, undoCall[c].uid,
                              undoCall[c].innings, undoCall[c].ref, ignoreUndefinedProperties),
              "undoLastBall", undoCall[c].match)
  /\ undoCall' = [undoCall EXCEPT ![c] = idleCall]

CreateMatch(uid, totalOvers) ==
  /\ DOMAIN matches # MatchIds
  /\ Commit(createMatch(db, uid, totalOvers), "createMatch", newMatchId(db))
  /\ UNCHANGED undoCall

UpdateToss(matchId, uid, toss) ==
  /\ Commit(updateToss(db, matchId, uid, toss), "updateToss", matchId)
  /\ UNCHANGED undoCall

AddPlayerToSquad(matchId, uid, teamId, player) ==
  /\ Commit(addPlayerToSquad(db, matchId, uid, teamId, player), "addPlayerToSquad", matchId)
  /\ UNCHANGED undoCall

RemovePlayerFromSquad(matchId, uid, teamId, playerId) ==
  /\ Commit(removePlayerFromSquad(db, matchId, uid, teamId, playerId),
            "removePlayerFromSquad", matchId)
  /\ UNCHANGED undoCall

StartMatch(matchId, uid, openers) ==
  /\ Commit(startMatch(db, matchId, uid, openers), "startMatch", matchId)
  /\ UNCHANGED undoCall

SwitchToSecondInnings(matchId, uid, openers) ==
  /\ Commit(switchToSecondInnings(db, matchId, uid, openers), "switchToSecondInnings", matchId)
  /\ UNCHANGED undoCall

\* variant: the transaction commits whatever was written since its read
transactionCommitsUnchecked(store, matchId, matchData) == TRUE

\* runTransaction commits when the document it read with transaction.get is the
\* one in the store, and runs its update function again when it is not
transactionCommits(store, matchId, matchData) ==
  matchId \in DOMAIN store.matches /\ store.matches[matchId] = matchData

\* recordBall up to the commit of its transaction: transaction.get and the update function
RecordGet(c, matchId, uid, ballInput) ==
  /\ undoCall[c].pc = "idle"
  /\ matchId \in DOMAIN matches
  /\ LET e == recordBallError(matches, matchId, uid, ballInput)
     IN IF e # "none"
        THEN /\ Commit(fail(db, e), "recordBall", matchId)
             /\ UNCHANGED undoCall
        ELSE /\ undoCall' = [undoCall EXCEPT ![c] =
                  [pc |-> "recording", match |-> matchId, uid |-> uid, innings |-> "1", ref |-> 0,
                   snap |-> Some([matchData |-> matches[matchId], ballInput |-> ballInput])]]
             /\ UNCHANGED <<matches, balls, last, showBowlerSelector>>

\* the commit of the transaction of recordBall: the writes computed from the match
\* document the transaction read; a transaction whose read is out of date runs again
\* on the match document of now
RecordCommit(c, now, maxLog, maxSpecial) ==
  /\ undoCall[c].pc = "recording"
  /\ LET matchId == undoCall[c].match
         read == undoCall[c].snap[1]
         asRead == [db EXCEPT !.matches[matchId] = read.matchData]
         again == recordBallError(matches, matchId, undoCall[c].uid, read.ballInput)
     IN IF transactionCommits(db, matchId, read.matchData)
        THEN LET r == ok(recordBallWrites(asRead, matchId, read.ballInput, now,
                                          heldRefs(matchId, getInningsId(read.matchData))))
             IN /\ withinBounds(r.db, matchId, maxLog, maxSpecial)
                /\ Commit(r, "recordBall", matchId)
                /\ undoCall' = [undoCall EXCEPT ![c] = idleCall]
        ELSE IF again # "none"
        THEN /\ Commit(fail(db, again), "recordBall", matchId)
             /\ undoCall' = [undoCall EXCEPT ![c] = idleCall]
        ELSE /\ undoCall' = [undoCall EXCEPT ![c].snap =
                  Some([matchData |-> matches[matchId], ballInput |-> read.ballInput])]
             /\ UNCHANGED <<matches, balls, last, showBowlerSelector>>

\* switchToSecondInnings up to its updateDoc: getDoc and the validations
SwitchRead(c, matchId, uid, openers) ==
  /\ undoCall[c].pc = "idle"
  /\ LET r == switchToSecondInnings(db, matchId, uid, openers)
     IN IF r.err # "none"
        THEN /\ Commit(fail(db, r.err), "switchToSecondInnings", matchId)
             /\ UNCHANGED undoCall
        ELSE /\ undoCall' = [undoCall EXCEPT ![c] =
                  [pc |-> "read", match |-> matchId, uid |-> uid, innings |-> "1", ref |-> 0,
                   snap |-> Some([matchData |-> matches[matchId], openers |-> openers])]]
             /\ UNCHANGED <<matches, balls, last, showBowlerSelector>>

\* the updateDoc of switchToSecondInnings
SwitchUpdate(c) ==
  /\ undoCall[c].pc = "read"
  /\ undoCall[c].match \in DOMAIN matches
  /\ Commit(ok(switchUpdateDoc(db, undoCall[c].match, undoCall[c].snap[1].matchData,
                               undoCall[c].snap[1].openers)),
            "switchToSecondInnings", undoCall[c].match)
  /\ undoCall' = [undoCall EXCEPT ![c] = idleCall]

CreateRematch(matchId, uid, totalOvers) ==
  /\ DOMAIN matches # MatchIds
  /\ Commit(createRematchWithSameSquads(db, matchId, uid, totalOvers),
            "createRematch", matchId)
  /\ UNCHANGED undoCall

EndMatch(matchId, uid) ==
  /\ Commit(endMatch(db, matchId, uid), "endMatch", matchId)
  /\ UNCHANGED undoCall

\* the "Select New Batter" panel: shown while the striker slot is empty
NewBatterSelect(matchId, newBatterId) ==
  /\ matchId \in DOMAIN matches
  /\ showNewBatterSelector(matches[matchId])
  /\ newBatterId \in availableNewBatters(matches[matchId])
  /\ Commit(handleNewBatterSelect(db, matchId, newBatterId), "newBatter", matchId)
  /\ UNCHANGED undoCall

\* the "Select New Bowler" panel
NewBowlerSelect(matchId, newBowlerId) ==
  /\ matchId \in DOMAIN matches
  /\ showBowlerSelector[matchId]
  /\ ~inningsComplete(matches[matchId])
  /\ matches[matchId].status # COMPLETED
  /\ newBowlerId \in availableNewBowlers(matches[matchId])
  /\ Commit(handleNewBowlerSelect(db, matchId, newBowlerId), "newBowler", matchId)
  /\ UNCHANGED undoCall

----------------------------------------------------------------------------
(* Inputs *)

dot == [runs_off_bat |-> 0, extras |-> None, wicket |-> None]
runsBall(n) == [runs_off_bat |-> n, extras |-> None, wicket |-> None]
extraBall(t, n) == [runs_off_bat |-> 0, extras |-> Some([type |-> t, runs |-> n]), wicket |-> None]
wicketBall(t, p, strikerOut) ==
  [ runs_off_bat |-> 0, extras |-> None,
    wicket |-> Some([type |-> t, player_id |-> p, is_striker_out |-> strikerOut]) ]

\* what the keypad of the scorer page sends, and wickets for any batter and either end
BallInputs(matchData) ==
  {dot, runsBall(1), extraBall(WIDE, 1), extraBall(NO_BALL, 1)}
    \cup { wicketBall(BOWLED, p, so) :
             p \in teamPlayers(matchData, matchData.live_state.batting_team_id),
             so \in BOOLEAN }

RECURSIVE draftSquad(_, _, _, _)
\* the store after the owner has added the players squad[k..] to a team of match m1
draftSquad(store, teamId, squad, k) ==
  IF k > Len(squad) THEN store
  ELSE draftSquad(addPlayerToSquad(store, "m1", Owner, teamId, squad[k]).db, teamId, squad, k + 1)

\* a match with both squads drafted, the toss won by team a who bat, and the openers in
startedDb(totalOvers, squadA, squadB) ==
  LET d1 == createMatch(emptyDb, Owner, totalOvers).db
      d2 == draftSquad(draftSquad(d1, "a", squadA, 1), "b", squadB, 1)
      d3 == updateToss(d2, "m1", Owner, [winner_id |-> "a", decision |-> "bat"]).db
  IN startMatch(d3, "m1", Owner,
                [striker_id |-> squadA[1],
                 non_striker_id |-> IF Len(squadA) > 1 THEN squadA[2] ELSE "",
                 bowler_id |-> squadB[1]]).db

secondInningsOpeners ==
  [striker_id |-> "b1", non_striker_id |-> "b2", bowler_id |-> "a1"]

----------------------------------------------------------------------------
(* Scoring one match: the scorer records, undoes, selects and ends *)

RECURSIVE bowlDots(_, _)
\* the store after n dot balls recorded by the owner on match m1
bowlDots(store, n) ==
  IF n = 0 THEN store
  ELSE bowlDots(recordBall(store, "m1", Owner, dot, 1, {}).db, n - 1)

\* showBowlerSelector on a page that has shown the match from its start through n dot balls
selectorAfterDots(matchData, n) ==
  n >= 6 /\ matchData.live_state.score.overs < matchData.config.total_overs

\* the matches explored: overs per innings and the batting squad
Configs ==
  { [total_overs |-> 1, a |-> <<"a1", "a2">>],
    [total_overs |-> 2, a |-> SquadA] }

\* a first innings in progress
Init ==
  /\ \E c \in Configs :
       /\ matches = bowlDots(startedDb(c.total_overs, c.a, SquadB), PrefixDots).matches
       /\ balls = bowlDots(startedDb(c.total_overs, c.a, SquadB), PrefixDots).balls
  /\ undoCall = [c \in Clients |-> idleCall]
  /\ last = [op |-> "recordBall", err |-> "none", match |-> "m1"]
  /\ showBowlerSelector =
       [m \in MatchIds |-> m \in DOMAIN matches /\ selectorAfterDots(matches[m], PrefixDots)]

ScoreBall ==
  \E b \in BallInputs(matches["m1"]), now \in Clock :
    RecordBall("m1", Owner, b, now, MaxLog, MaxSpecial)

\* the deliveries bowled before the exploration starts stay in the log
Undo ==
  /\ Len(balls["m1"]["1"]) > PrefixDots
  /\ UndoLastBall("m1", Owner)

SelectBatter == \E p \in PlayerIds : NewBatterSelect("m1", p)

SelectBowler == \E p \in PlayerIds : NewBowlerSelect("m1", p)

\* ending the match takes one unit of the budget of special deliveries
End ==
  /\ specials(db, "m1") < MaxSpecial
  /\ EndMatch("m1", Owner)

Next == ScoreBall \/ Undo \/ SelectBatter \/ SelectBowler \/ End

Spec == Init /\ [][Next]_vars

----------------------------------------------------------------------------
(* Properties of scoring one match *)

\* every delivery a caller can submit: runs, extras, and a wicket for any player at either end
AnyBallInputs ==
  {dot, runsBall(4), extraBall(WIDE, 1), extraBall(NO_BALL, 1)}
    \cup { wicketBall(t, p, so) : t \in {BOWLED, RUN_OUT}, p \in Range(SquadA), so \in BOOLEAN }

Callers == Users \cup {NoUser}

\* this step is a call of op that has returned
Called(op) == last'.op = op /\ undoCall' = undoCall

\* this step is a recordBall on match m that was committed
Recorded(m) == Called("recordBall") /\ last'.err = "none" /\ last'.match = m

\* the event a committed recordBall on match m has appended
appended(m) ==
  LET log == balls'[m][getInningsId(matches[m])] IN log[Len(log)].data

\* the deliveries of the runs that are recorded and then undone
RunInputs == {dot, runsBall(1), extraBall(WIDE, 1), extraBall(NO_BALL, 1)}

Runs == UNION { [1..n -> RunInputs] : n \in 1..MaxRun }

RECURSIVE recordRun(_, _, _, _)
\* the outcome of recording the deliveries run[k..] one after the other, stopping at the first failure
recordRun(store, matchId, run, k) ==
  IF k > Len(run) THEN ok(store)
  ELSE LET r == recordBall(store, matchId, Owner, run[k], 1, {})
       IN IF r.err # "none" THEN r ELSE recordRun(r.db, matchId, run, k + 1)

RECURSIVE undoRun(_, _, _, _)
\* the outcome of n calls of undoLastBall, stopping at the first failure
undoRun(store, matchId, n, ignoreUndefinedProperties) ==
  IF n = 0 THEN ok(store)
  ELSE LET r == undoLastBall(store, matchId, Owner, ignoreUndefinedProperties)
       IN IF r.err # "none" THEN r
          ELSE undoRun(r.db, matchId, n - 1, ignoreUndefinedProperties)

\* C1: N successful recordBall calls followed by N undoLastBall calls return the
\* live state exactly to the state before the first of them
RoundTripRestores ==
  \A m \in DOMAIN matches : \A run \in Runs : \A ignoreUndefinedProperties \in BOOLEAN :
    LET recorded == recordRun(db, m, run, 1)
        undone == undoRun(recorded.db, m, Len(run), ignoreUndefinedProperties)
    IN recorded.err = "none"
       => (undone.err = "none" /\ undone.db.matches[m].live_state = matches[m].live_state)

\* C4: an undo of a match that endMatch completed (Completed, no result) leaves it Completed
UndoKeepsManualCompletion ==
  [][ \A m \in DOMAIN matches :
        (/\ Called("undoLastBall")
         /\ last'.match = m
         /\ matches[m].status = COMPLETED
         /\ matches[m].result = None)
        => matches'[m].status = COMPLETED ]_vars

completesOver(event) ==
  event.post_ball_state.score.overs = event.pre_ball_state.score.overs + 1

BowlerDiffersFromLast ==
  \A m \in DOMAIN matches :
    LET ls == matches[m].live_state
    IN (truthy(ls.bowler_id) /\ truthy(ls.last_bowler_id))
       => ls.bowler_id # ls.last_bowler_id

\* C6: bowler_id equals last_bowler_id only at an over boundary (balls = 0, overs > 0),
\* in the state left by the delivery that completed the over
BowlerEqualsLastOnlyAtOverEnd ==
  \A m \in DOMAIN matches :
    LET ls == matches[m].live_state
    IN (truthy(ls.bowler_id) /\ truthy(ls.last_bowler_id) /\ ls.bowler_id = ls.last_bowler_id)
       => (ls.score.balls = 0 /\ ls.score.overs > 0)

BowlerEqualsLastReached ==
  /\ last = [op |-> "recordBall", err |-> "none", match |-> "m1"]
  /\ matches["m1"].live_state.bowler_id = "b1"
  /\ matches["m1"].live_state.last_bowler_id = "b1"
  /\ matches["m1"].live_state.score.overs = 1

\* C7: while bowler_id is the bowler who completed the last over, a recordBall call
\* is rejected and leaves the match and the log as they were
SameBowlerRejected ==
  [][ \A m \in DOMAIN matches :
        (/\ Called("recordBall")
         /\ last'.match = m
         /\ truthy(matches[m].live_state.last_bowler_id)
         /\ matches[m].live_state.bowler_id = matches[m].live_state.last_bowler_id)
        => (last'.err # "none" /\ matches' = matches /\ balls' = balls) ]_vars

SameBowlerRejectedReached ==
  /\ last = [op |-> "recordBall", err |-> "bowler_pending", match |-> "m1"]
  /\ matches["m1"].live_state.bowler_id = matches["m1"].live_state.last_bowler_id

\* the preconditions of recordBall as the contract lists them
preconditionFails(matchId, uid, ballInput) ==
  \/ uid = NoUser
  \/ matchId \notin DOMAIN matches
  \/ /\ matchId \in DOMAIN matches
     /\ LET m == matches[matchId]
            ls == m.live_state
        IN \/ uid # m.owner_id /\ uid \notin m.authorized_user_ids
           \/ m.status # LIVE
           \/ ls.score.overs >= m.config.total_overs
           \/ ls.score.wickets >= Len(m.teams[ls.batting_team_id]) - 1
           \/ ls.striker_id # "" /\ ls.striker_id \in Range(ls.dismissed_batter_ids)
           \/ ls.non_striker_id # "" /\ ls.non_striker_id \in Range(ls.dismissed_batter_ids)
           \/ /\ ls.score.balls = 0 /\ ls.score.overs > 0
              /\ ls.bowler_id = ls.last_bowler_id
           \/ /\ ballInput.wicket # None
              /\ ballInput.wicket[1].player_id \in Range(ls.dismissed_batter_ids)

\* C8: a recordBall that fails a precondition is rejected and changes neither the
\* match document nor the ball log
FailedRecordBallChangesNothing ==
  \A m \in MatchIds, u \in Callers, b \in AnyBallInputs, now \in Clock :
    preconditionFails(m, u, b)
      => LET r == recordBall(db, m, u, b, now, {})
         IN r.err # "none" /\ r.db.matches = matches /\ r.db.balls = balls

FailedRecordBallReached ==
  /\ last = [op |-> "recordBall", err |-> "already_dismissed", match |-> "m1"]
  /\ matches["m1"].live_state.score.wickets = 1

\* C9: neither batter at the crease is in the dismissed set
CreaseNotDismissed ==
  \A m \in DOMAIN matches :
    LET ls == matches[m].live_state
    IN /\ ls.striker_id \notin Range(ls.dismissed_batter_ids)
       /\ ls.non_striker_id \notin Range(ls.dismissed_batter_ids)

----------------------------------------------------------------------------
(* Undo calls of two clients racing with the scorer on one match *)

RaceInit ==
  /\ matches = bowlDots(startedDb(2, SquadA, SquadB), 1).matches
  /\ balls = bowlDots(startedDb(2, SquadA, SquadB), 1).balls
  /\ undoCall = [c \in Clients |-> idleCall]
  /\ last = [op |-> "recordBall", err |-> "none", match |-> "m1"]
  /\ showBowlerSelector = [m \in MatchIds |-> FALSE]

RaceRecord ==
  \E now \in Clock :
    RecordBall("m1", Owner, dot, now, MaxRaceLog, MaxRaceLog)

RaceQuery == \E c \in Clients : UndoQuery(c, "m1", Owner)

RaceTransaction == \E c \in Clients : UndoTransaction(c)

RaceNext == RaceRecord \/ RaceQuery \/ RaceTransaction

SpecRace == RaceInit /\ [][RaceNext]_vars

\* C2: the event an undo deletes is the last event of the log when the undo commits,
\* and the live state it leaves is the post_ball_state of the event that is then last
UndoDeletesTail ==
  [][ \A c \in Clients :
        (undoCall[c].pc = "queried" /\ undoCall'[c].pc = "idle" /\ last'.err = "none")
        => LET log == balls[undoCall[c].match][undoCall[c].innings]
               rest == balls'[undoCall[c].match][undoCall[c].innings]
           IN /\ undoCall[c].ref = log[Len(log)].ref
              /\ rest = SubSeq(log, 1, Len(log) - 1)
              /\ Len(rest) > 0
                   => matches'[undoCall[c].match].live_state = rest[Len(rest)].data.post_ball_state
    ]_vars

----------------------------------------------------------------------------
(* One owner creating, starting, scoring, ending and re-creating matches *)

OwnerInit ==
  /\ matches = <<>>
  /\ balls = emptyLogs
  /\ undoCall = [c \in Clients |-> idleCall]
  /\ last = [op |-> "createMatch", err |-> "unauthenticated", match |-> "m1"]
  /\ showBowlerSelector = [m \in MatchIds |-> FALSE]

OwnerOpeners == [striker_id |-> "a1", non_striker_id |-> "a2", bowler_id |-> "b1"]

OwnerCreate == CreateMatch(Owner, 1)

OwnerAddPlayer ==
  \E m \in DOMAIN matches, t \in TeamIds :
    \E p \in (IF t = "a" THEN {"a1", "a2"} ELSE {"b1"}) :
      /\ Len(matches[m].teams[t]) < 2
      /\ AddPlayerToSquad(m, Owner, t, p)

OwnerToss ==
  \E m \in DOMAIN matches : UpdateToss(m, Owner, [winner_id |-> "a", decision |-> "bat"])

OwnerStart == \E m \in DOMAIN matches : StartMatch(m, Owner, OwnerOpeners)

OwnerScore ==
  \E m \in DOMAIN matches, now \in Clock : RecordBall(m, Owner, dot, now, MaxOwnerLog, 0)

OwnerEnd == \E m \in DOMAIN matches : EndMatch(m, Owner)

OwnerUndo == \E m \in DOMAIN matches : UndoLastBall(m, Owner)

OwnerRematch == \E m \in DOMAIN matches : CreateRematch(m, Owner, 1)

OwnerNext ==
  \/ OwnerCreate \/ OwnerAddPlayer \/ OwnerToss \/ OwnerStart
  \/ OwnerScore \/ OwnerEnd \/ OwnerUndo \/ OwnerRematch

SpecOwner == OwnerInit /\ [][OwnerNext]_vars

\* C3: an owner has at most one match in status live
OneLivePerOwner ==
  \A u \in Users :
    Cardinality({ m \in DOMAIN matches :
                    matches[m].owner_id = u /\ matches[m].status = LIVE }) <= 1

----------------------------------------------------------------------------
(* Scoring a match while its batting squad is edited *)

SquadInit ==
  /\ \E a \in {SquadA, <<"a1", "a2">>, <<"a1">>} :
       /\ matches = startedDb(2, a, SquadB).matches
       /\ balls = startedDb(2, a, SquadB).balls
  /\ undoCall = [c \in Clients |-> idleCall]
  /\ last = [op |-> "startMatch", err |-> "none", match |-> "m1"]
  /\ showBowlerSelector = [m \in MatchIds |-> FALSE]

SquadScore ==
  \E b \in BallInputs(matches["m1"]), now \in Clock :
    RecordBall("m1", Owner, b, now, MaxSquadLog, MaxSquadLog)

SquadUndo == UndoLastBall("m1", Owner)

SquadRemove == \E p \in Range(SquadA) : RemovePlayerFromSquad("m1", Owner, "a", p)

SquadAdd == \E p \in Range(SquadA) : AddPlayerToSquad("m1", Owner, "a", p)

SquadNext == SquadScore \/ SquadUndo \/ SquadRemove \/ SquadAdd

SpecSquad == SquadInit /\ [][SquadNext]_vars

\* C10: the wickets of an innings never exceed max(size of the batting squad - 1, 0)
WicketsWithinSquad ==
  \A m \in DOMAIN matches :
    matches[m].live_state.batting_team_id \in TeamIds
      => matches[m].live_state.score.wickets
           <= Max(Len(matches[m].teams[matches[m].live_state.batting_team_id]) - 1, 0)

\* C11: once the wickets equal the size of the batting squad minus one, every
\* further recordBall, by any caller and for any delivery, is rejected and
\* leaves the store as it was
WicketCeilingRejects ==
  \A m \in DOMAIN matches :
    ( /\ matches[m].status = LIVE
      /\ matches[m].live_state.batting_team_id \in TeamIds
      /\ matches[m].live_state.score.wickets
           = Len(matches[m].teams[matches[m].live_state.batting_team_id]) - 1 )
      => \A u \in Callers, b \in AnyBallInputs :
           LET r == recordBall(db, m, u, b, 1, {})
           IN r.err # "none" /\ r.db = db

\* C20: the event a committed recordBall appends carries, as pre_ball_state,
\* the live state committed just before that call and, as post_ball_state, the
\* live state the call commits; an event enters the log only in the step that
\* commits its live state, and the events in the log are never rewritten
SnapshotsMatchCommits ==
  [][ \A m \in DOMAIN matches :
        LET grown == \E i \in InningsIds :
                       \E d \in Range(balls'[m][i]) : d \notin Range(balls[m][i])
        IN /\ grown <=> Recorded(m)
           /\ Recorded(m) =>
                /\ appended(m).pre_ball_state = matches[m].live_state
                /\ appended(m).post_ball_state = matches'[m].live_state
                /\ \A i \in InningsIds :
                     Range(balls'[m][i]) \ Range(balls[m][i])
                       \subseteq {[ref |-> d.ref, data |-> appended(m)] : d \in Range(balls'[m][i])}
    ]_vars

\* a delivery recorded after a selection or an undo: its snapshot before the
\* ball is not the state the delivery before it left
SnapshotAfterSelection ==
  /\ last = [op |-> "recordBall", err |-> "none", match |-> "m1"]
  /\ LET log == balls["m1"]["1"]
     IN /\ Len(log) > 1
        /\ log[Len(log)].data.pre_ball_state # log[Len(log) - 1].data.post_ball_state
        /\ log[Len(log)].data.pre_ball_state # log[Len(log)].data.post_ball_state
        /\ log[Len(log)].data.post_ball_state = matches["m1"].live_state

\* the fields of a delivery that its event records
recordedFields(ballInput) ==
  [ runs_off_bat |-> ballInput.runs_off_bat,
    extras |-> eventExtras(ballInput),
    wicket |-> eventWicket(ballInput) ]

\* C21: two recordBall calls from the same state whose events record the same
\* runs_off_bat, extras and wicket commit the same post-ball state
PostStateReconstructible ==
  \A b1, b2 \in AnyBallInputs :
    LET r1 == recordBall(db, "m1", Owner, b1, 1, {})
        r2 == recordBall(db, "m1", Owner, b2, 1, {})
    IN (r1.err = "none" /\ r2.err = "none" /\ recordedFields(b1) = recordedFields(b2))
         => r1.db.matches["m1"].live_state = r2.db.matches["m1"].live_state

\* every toss a caller can submit
TossInputs == [winner_id : TeamIds, decision : {"bat", "bowl"}]

\* what the toss decides: the toss, the sides and the innings count
tossFields(matchData) ==
  << matchData.toss,
     matchData.live_state.batting_team_id, matchData.live_state.bowling_team_id,
     matchData.live_state.first_batting_team_id, matchData.live_state.second_batting_team_id,
     matchData.live_state.current_innings >>

\* C22: once a match is live, completed or abandoned, a toss call leaves the
\* toss, the batting and bowling sides, the first and second batting sides and
\* the innings count as they were
TossFixedOnceLive ==
  \A m \in DOMAIN matches :
    matches[m].status # SCHEDULED
      => \A t \in TossInputs :
           tossFields(updateToss(db, m, Owner, t).db.matches[m]) = tossFields(matches[m])

----------------------------------------------------------------------------
(* Scoring across the end of an over: runs, extras and dismissals *)

\* deliveries in the log
MaxOverLog == 7

\* dot balls bowled before the exploration starts
OverDots == 4

\* runs and extras, and the dismissals the wicket panel of the scorer page sends
OverInputs(matchData) ==
  {dot, runsBall(1), runsBall(4), extraBall(WIDE, 1), extraBall(NO_BALL, 1), extraBall(BYE, 1)}
    \cup { wicketBall(BOWLED, matchData.live_state.striker_id, TRUE) :
             x \in {y \in {1} : truthy(matchData.live_state.striker_id)} }
    \cup { wicketBall(RUN_OUT, matchData.live_state.non_striker_id, FALSE) :
             x \in {y \in {1} : truthy(matchData.live_state.non_striker_id)} }

OverInit ==
  /\ matches = bowlDots(startedDb(2, SquadA, SquadB), OverDots).matches
  /\ balls = bowlDots(startedDb(2, SquadA, SquadB), OverDots).balls
  /\ undoCall = [c \in Clients |-> idleCall]
  /\ last = [op |-> "recordBall", err |-> "none", match |-> "m1"]
  /\ showBowlerSelector =
       [m \in MatchIds |-> m \in DOMAIN matches /\ selectorAfterDots(matches[m], OverDots)]

OverScore ==
  \E b \in OverInputs(matches["m1"]), now \in Clock :
    RecordBall("m1", Owner, b, now, MaxOverLog, MaxOverLog)

OverSelectBatter == \E p \in PlayerIds : NewBatterSelect("m1", p)

OverSelectBowler == \E p \in PlayerIds : NewBowlerSelect("m1", p)

OverNext == OverScore \/ OverSelectBatter \/ OverSelectBowler

SpecOver == OverInit /\ [][OverNext]_vars

\* the deliveries whose arithmetic is checked: those of the scorer page, leg-byes
\* and a no-ball with a run taken
OverArithmeticInputs(matchData) ==
  OverInputs(matchData) \cup {extraBall(LEG_BYE, 1), extraBall(NO_BALL, 2)}

\* balls faced by a batter and balls bowled by a bowler, 0 without a stats entry
ballsFaced(liveState, p) ==
  IF ~truthy(p) \/ liveState.player_stats.batters[p] = None
  THEN 0 ELSE liveState.player_stats.batters[p][1].balls

ballsBowled(liveState, p) ==
  IF ~truthy(p) \/ liveState.player_stats.bowlers[p] = None
  THEN 0 ELSE liveState.player_stats.bowlers[p][1].balls

\* C15: a committed legal delivery (no extras, bye, leg-bye) advances the
\* position by one ball, and starts a new over exactly when it is the sixth;
\* a wide or no-ball adds its runs and leaves overs, balls, the striker's
\* balls faced and the bowler's balls bowled as they were
OverArithmetic ==
  \A b \in OverArithmeticInputs(matches["m1"]) :
    LET r == recordBall(db, "m1", Owner, b, 1, {})
        pre == matches["m1"].live_state
        post == r.db.matches["m1"].live_state
    IN r.err = "none" =>
         IF b.extras # None /\ b.extras[1].type \in {WIDE, NO_BALL}
         THEN /\ post.score.runs = pre.score.runs + b.runs_off_bat + b.extras[1].runs
              /\ post.score.overs = pre.score.overs
              /\ post.score.balls = pre.score.balls
              /\ ballsFaced(post, pre.striker_id) = ballsFaced(pre, pre.striker_id)
              /\ ballsBowled(post, pre.bowler_id) = ballsBowled(pre, pre.bowler_id)
         ELSE /\ post.score.overs * 6 + post.score.balls
                   = pre.score.overs * 6 + pre.score.balls + 1
              /\ IF pre.score.balls = 5
                 THEN post.score.balls = 0 /\ post.score.overs = pre.score.overs + 1
                 ELSE post.score.balls = pre.score.balls + 1
                        /\ post.score.overs = pre.score.overs

\* an over completed by its sixth legal delivery with a wide or a no-ball bowled in between
OverCompletedAfterExtras ==
  /\ last = [op |-> "recordBall", err |-> "none", match |-> "m1"]
  /\ matches["m1"].live_state.score.overs = 1
  /\ matches["m1"].live_state.score.balls = 0
  /\ Len(balls["m1"]["1"]) = 7
  /\ \E i \in 1..Len(balls["m1"]["1"]) :
       /\ balls["m1"]["1"][i].data.extras # None
       /\ balls["m1"]["1"][i].data.extras[1].type \in {WIDE, NO_BALL}

\* the deliveries whose strike rotation is checked: those above and a run-out
\* of the non-striker after a completed run
StrikeInputs(matchData) ==
  OverArithmeticInputs(matchData)
    \cup { [wicketBall(RUN_OUT, matchData.live_state.non_striker_id, FALSE)
              EXCEPT !.runs_off_bat = 1] :
             x \in {y \in {1} : truthy(matchData.live_state.non_striker_id)} }

exchangedEnds(pre, post) ==
  post.striker_id = pre.non_striker_id /\ post.non_striker_id = pre.striker_id

keptEnds(pre, post) ==
  post.striker_id = pre.striker_id /\ post.non_striker_id = pre.non_striker_id

\* C17 as stated: with both batters in, a committed single exchanges the
\* batters and a committed four leaves them, at every ball of the over
SingleExchangesFourKeeps ==
  LET pre == matches["m1"].live_state
      single == recordBall(db, "m1", Owner, runsBall(1), 1, {})
      four == recordBall(db, "m1", Owner, runsBall(4), 1, {})
  IN (truthy(pre.striker_id) /\ truthy(pre.non_striker_id))
       => /\ single.err = "none"
               => exchangedEnds(pre, single.db.matches["m1"].live_state)
          /\ four.err = "none"
               => keptEnds(pre, four.db.matches["m1"].live_state)

\* C17: with both batters in, a committed single exchanges the batters at
\* every ball of the over; a committed four leaves them on the first five
\* balls of the over and exchanges them on the sixth
SingleExchangesFourKeepsWithinOver ==
  LET pre == matches["m1"].live_state
      single == recordBall(db, "m1", Owner, runsBall(1), 1, {})
      four == recordBall(db, "m1", Owner, runsBall(4), 1, {})
  IN (truthy(pre.striker_id) /\ truthy(pre.non_striker_id))
       => /\ single.err = "none"
               => exchangedEnds(pre, single.db.matches["m1"].live_state)
          /\ four.err = "none"
               => IF pre.score.balls = 5
                  THEN exchangedEnds(pre, four.db.matches["m1"].live_state)
                  ELSE keptEnds(pre, four.db.matches["m1"].live_state)

\* a four off the last ball of an over: the batters have exchanged ends
FourOffLastBallExchanges ==
  /\ last = [op |-> "recordBall", err |-> "none", match |-> "m1"]
  /\ matches["m1"].live_state.score.balls = 0
  /\ LET log == balls["m1"]["1"]
         event == log[Len(log)].data
     IN /\ event.runs_off_bat = 4 /\ event.wicket = None
        /\ event.post_ball_state = matches["m1"].live_state
        /\ truthy(event.pre_ball_state.striker_id)
        /\ truthy(event.pre_ball_state.non_striker_id)
        /\ exchangedEnds(event.pre_ball_state, matches["m1"].live_state)

\* C12: a dismissal on a free hit, of a type other than run-out, does not count:
\* the wickets, the dismissed set and the batter slots stay, the runs are added
FreeHitDismissalNotCounted ==
  [][ \A m \in DOMAIN matches :
        ( /\ Recorded(m)
          /\ matches[m].live_state.is_free_hit = Some(TRUE)
          /\ appended(m).wicket # None
          /\ appended(m).wicket[1].type # RUN_OUT )
        => LET pre == matches[m].live_state
               post == matches'[m].live_state
           IN /\ post.score.wickets = pre.score.wickets
              /\ post.dismissed_batter_ids = pre.dismissed_batter_ids
              /\ {post.striker_id, post.non_striker_id}
                    = {pre.striker_id, pre.non_striker_id}
              /\ post.score.runs
                    = pre.score.runs + appended(m).runs_off_bat
                        + (IF appended(m).extras = None THEN 0 ELSE appended(m).extras[1].runs)
    ]_vars

----------------------------------------------------------------------------
(* A one-over match from the last ball of the first innings through the chase *)

\* deliveries in the log of an innings
MaxChaseLog == 7

\* deliveries of the match that are no dot balls
MaxChaseSpecial == 3

\* runs, a wide, the dismissal of the striker, and a run-out of the non-striker
\* after a completed run
ChaseInputs(matchData) ==
  {dot, runsBall(1), extraBall(WIDE, 1)}
    \cup { wicketBall(BOWLED, matchData.live_state.striker_id, TRUE) :
             x \in {y \in {1} : truthy(matchData.live_state.striker_id)} }
    \cup { [wicketBall(RUN_OUT, matchData.live_state.non_striker_id, FALSE)
              EXCEPT !.runs_off_bat = 1] :
             x \in {y \in {1} : truthy(matchData.live_state.non_striker_id)} }

\* the chasing squads explored
ChaseSquads == {<<"b1", "b2">>, SquadB}

ChaseInit ==
  /\ \E b \in ChaseSquads :
       /\ matches = bowlDots(startedDb(1, <<"a1", "a2">>, b), 5).matches
       /\ balls = bowlDots(startedDb(1, <<"a1", "a2">>, b), 5).balls
  /\ undoCall = [c \in Clients |-> idleCall]
  /\ last = [op |-> "recordBall", err |-> "none", match |-> "m1"]
  /\ showBowlerSelector = [m \in MatchIds |-> FALSE]

ChaseScore ==
  \E b \in ChaseInputs(matches["m1"]), now \in Clock :
    RecordBall("m1", Owner, b, now, MaxChaseLog, MaxChaseSpecial)

\* the openers the panel can submit: its non-striker list leaves out the striker
\* chosen so far, its striker list leaves out nobody, and the handler compares nothing
ChaseOpeners ==
  { secondInningsOpeners,
    [striker_id |-> "b1", non_striker_id |-> "b1", bowler_id |-> "a1"] }

\* the "Start Second Innings" panel, offered once the overs of the first innings are bowled
ChaseSwitch ==
  /\ inningsComplete(matches["m1"])
  /\ matches["m1"].status # COMPLETED
  /\ \E openers \in ChaseOpeners : SwitchToSecondInnings("m1", Owner, openers)

ChaseSelectBatter == \E p \in PlayerIds : NewBatterSelect("m1", p)

ChaseNext == ChaseScore \/ ChaseSwitch \/ ChaseSelectBatter

SpecChase == ChaseInit /\ [][ChaseNext]_vars

\* the deliveries still to be bowled in the innings
ballsLeft(matchData, score) ==
  matchData.config.total_overs * 6 - (score.overs * 6 + score.balls)

\* the wickets the batting side can still lose: one less than its squad, less the wickets lost
wicketsLeft(matchData, liveState) ==
  Len(matchData.teams[liveState.batting_team_id]) - 1 - liveState.score.wickets

\* C13: a recordBall of the second innings that brings the runs to the target
\* (first_innings_total + 1) completes the match in the same commit with a win
\* of the chasing (batting) team over the defending (bowling) team, by the
\* wickets remaining when there are any and by the balls remaining otherwise
ChaseCompletes ==
  [][ \A m \in DOMAIN matches :
        LET pre == matches[m].live_state
            post == matches'[m].live_state
        IN ( /\ Recorded(m)
             /\ pre.current_innings = Some(2)
             /\ post.score.runs >= pre.first_innings_total[1] + 1 )
           => /\ matches'[m].status = COMPLETED
              /\ matches'[m].result # None
              /\ matches'[m].result[1].type = "win"
              /\ matches'[m].result[1].winner_team_id = pre.batting_team_id
              /\ matches'[m].result[1].loser_team_id = pre.bowling_team_id
              /\ matches'[m].result[1].margin
                   = IF wicketsLeft(matches[m], post) > 0
                     THEN [n |-> wicketsLeft(matches[m], post), unit |-> "wicket"]
                     ELSE [n |-> ballsLeft(matches[m], post.score), unit |-> "ball"]
    ]_vars

\* a chase won with wickets in hand
ChaseWonByWickets ==
  /\ last = [op |-> "recordBall", err |-> "none", match |-> "m1"]
  /\ matches["m1"].status = COMPLETED
  /\ matches["m1"].result # None
  /\ matches["m1"].result[1].winner_team_id = matches["m1"].live_state.batting_team_id
  /\ matches["m1"].result[1].margin.unit = "wicket"

\* C14: a committed recordBall completes the match exactly when it is a
\* delivery of the second innings after which the target is reached, or all
\* overs are bowled, or the chasing side is all out; short of the target the
\* result is a tie on equal runs and otherwise a win of the defending side
\* by the difference of the runs; in the first innings status and result stay
ResultRule ==
  [][ \A m \in DOMAIN matches :
        Recorded(m) =>
          LET pre == matches[m].live_state
              post == matches'[m].live_state
          IN IF pre.current_innings # Some(2)
             THEN /\ matches'[m].status = matches[m].status
                  /\ matches'[m].result = matches[m].result
             ELSE LET first == pre.first_innings_total[1]
                      reached == post.score.runs >= first + 1
                      oversBowled == ballsLeft(matches[m], post.score) <= 0
                      allOut == wicketsLeft(matches[m], post) <= 0
                  IN /\ (matches'[m].status = COMPLETED) <=> (reached \/ oversBowled \/ allOut)
                     /\ (~reached /\ (oversBowled \/ allOut))
                          => /\ matches'[m].result # None
                             /\ IF post.score.runs = first
                                THEN matches'[m].result[1].type = "tie"
                                ELSE /\ matches'[m].result[1].type = "win"
                                     /\ matches'[m].result[1].winner_team_id = pre.bowling_team_id
                                     /\ matches'[m].result[1].loser_team_id = pre.batting_team_id
                                     /\ matches'[m].result[1].margin
                                          = [n |-> first - post.score.runs, unit |-> "run"]
    ]_vars

\* a chase that ended in a tie
ChaseTied ==
  /\ last = [op |-> "recordBall", err |-> "none", match |-> "m1"]
  /\ matches["m1"].status = COMPLETED
  /\ matches["m1"].result # None
  /\ matches["m1"].result[1].type = "tie"

\* C18: after every committed transition the striker and the non-striker
\* differ whenever both slots are occupied
CreaseDistinct ==
  \A m \in DOMAIN matches :
    ( /\ truthy(matches[m].live_state.striker_id)
      /\ truthy(matches[m].live_state.non_striker_id) )
      => matches[m].live_state.striker_id # matches[m].live_state.non_striker_id

----------------------------------------------------------------------------
(* The ball log under every operation of a match and its rematch *)

\* deliveries in the log of an innings
MaxLogLen == 6

\* dot balls bowled before the exploration starts
LogDots == 5

\* deliveries of the match that are no dot balls
MaxLogSpecial == 2

LogInit ==
  /\ matches = bowlDots(startedDb(1, <<"a1", "a2">>, <<"b1", "b2">>), LogDots).matches
  /\ balls = bowlDots(startedDb(1, <<"a1", "a2">>, <<"b1", "b2">>), LogDots).balls
  /\ undoCall = [c \in Clients |-> idleCall]
  /\ last = [op |-> "recordBall", err |-> "none", match |-> "m1"]
  /\ showBowlerSelector = [m \in MatchIds |-> FALSE]

\* the scorer and a user without access record on the first match
LogScore ==
  \E u \in {Owner, Stranger}, b \in {dot, extraBall(WIDE, 1)}, now \in Clock :
    RecordBall("m1", u, b, now, MaxLogLen, MaxLogSpecial)

LogUndo == UndoLastBall("m1", Owner)

\* the toss panel of the new-match page, shown for a scheduled match
LogToss ==
  \E m \in DOMAIN matches :
    /\ matches[m].status = SCHEDULED
    /\ UpdateToss(m, Owner, [winner_id |-> "a", decision |-> "bat"])

LogStart == \E m \in DOMAIN matches : StartMatch(m, Owner, OwnerOpeners)

LogSwitch ==
  /\ inningsComplete(matches["m1"])
  /\ matches["m1"].status # COMPLETED
  /\ SwitchToSecondInnings("m1", Owner, secondInningsOpeners)

LogEnd == \E m \in DOMAIN matches : EndMatch(m, Owner)

LogRematch == CreateRematch("m1", Owner, 1)

LogNext ==
  \/ LogScore \/ LogUndo \/ LogToss \/ LogStart
  \/ LogSwitch \/ LogEnd \/ LogRematch

SpecLog == LogInit /\ [][LogNext]_vars

\* log is old with one of its entries taken out
oneRemoved(old, log) ==
  \E k \in 1..Len(old) :
    log = SubSeq(old, 1, k - 1) \o SubSeq(old, k + 1, Len(old))

\* C19: a committed recordBall appends exactly one event to the log of the
\* current innings and leaves the events before it as they were; a committed
\* undoLastBall takes exactly one event out of it; every other step (toss,
\* start, innings switch, end, rematch, failed calls) leaves every log as it was
LogDiscipline ==
  [][ \A m \in MatchIds, i \in InningsIds :
        IF Recorded(m) /\ i = getInningsId(matches[m])
        THEN /\ Len(balls'[m][i]) = Len(balls[m][i]) + 1
             /\ SubSeq(balls'[m][i], 1, Len(balls[m][i])) = balls[m][i]
        ELSE IF /\ Called("undoLastBall") /\ last'.err = "none" /\ last'.match = m
                /\ i = getInningsId(matches[m])
        THEN oneRemoved(balls[m][i], balls'[m][i])
        ELSE balls'[m][i] = balls[m][i]
    ]_vars

\* the second innings started, and the rematch created, with the first innings' log in place
LogKeptThroughSwitchAndRematch ==
  /\ DOMAIN matches = MatchIds
  /\ matches["m1"].live_state.current_innings = Some(2)
  /\ Len(balls["m1"]["1"]) >= 6
  /\ Len(balls["m1"]["2"]) >= 1
  /\ matches["m2"].status = LIVE

\* this step is a switchToSecondInnings on match m that was committed
Switched(m) ==
  Called("switchToSecondInnings") /\ last'.err = "none" /\ last'.match = m

\* C23: a committed switchToSecondInnings exchanges the batting and bowling
\* sides, stores the runs of the innings just finished as first_innings_total,
\* resets the score, the player stats and the dismissed set, clears
\* last_bowler_id and is_free_hit, sets current_innings to 2 and installs
\* openers of the new sides; the match was and stays live and no log changes
SwitchEffects ==
  [][ \A m \in DOMAIN matches :
        Switched(m) =>
          LET pre == matches[m].live_state
              post == matches'[m].live_state
          IN /\ matches[m].status = LIVE /\ matches'[m].status = LIVE
             /\ post.batting_team_id = pre.bowling_team_id
             /\ post.bowling_team_id = pre.batting_team_id
             /\ post.first_innings_total = Some(pre.score.runs)
             /\ post.score = [runs |-> 0, wickets |-> 0, overs |-> 0, balls |-> 0]
             /\ \A p \in PlayerIds : /\ post.player_stats.batters[p] = None
                                     /\ post.player_stats.bowlers[p] = None
             /\ post.dismissed_batter_ids = <<>>
             /\ post.last_bowler_id = Undefined
             /\ post.is_free_hit # Some(TRUE)
             /\ post.current_innings = Some(2)
             /\ post.striker_id \in Range(matches[m].teams[post.batting_team_id])
             /\ post.non_striker_id \in Range(matches[m].teams[post.batting_team_id])
             /\ post.bowler_id \in Range(matches[m].teams[post.bowling_team_id])
             /\ balls' = balls
    ]_vars

\* the second innings just started, with one run scored in the first innings and its log in place
SecondInningsStarted ==
  /\ last = [op |-> "switchToSecondInnings", err |-> "none", match |-> "m1"]
  /\ matches["m1"].live_state.current_innings = Some(2)
  /\ matches["m1"].live_state.first_innings_total = Some(1)
  /\ Len(balls["m1"]["1"]) >= 6
  /\ balls["m1"]["1"][Len(balls["m1"]["1"])].data.post_ball_state.last_bowler_id = "b1"

----------------------------------------------------------------------------
(* The innings switch of one client while another client scores and undoes *)

\* deliveries in the log of an innings
MaxSwitchLog == 6

\* deliveries of the match that are no dot balls
MaxSwitchSpecial == 2

SwitchInit ==
  /\ matches = bowlDots(startedDb(1, <<"a1", "a2">>, <<"b1", "b2">>), 5).matches
  /\ balls = bowlDots(startedDb(1, <<"a1", "a2">>, <<"b1", "b2">>), 5).balls
  /\ undoCall = [c \in Clients |-> idleCall]
  /\ last = [op |-> "recordBall", err |-> "none", match |-> "m1"]
  /\ showBowlerSelector = [m \in MatchIds |-> FALSE]

SwitchScore ==
  \E b \in {dot, runsBall(1)}, now \in Clock :
    RecordBall("m1", Owner, b, now, MaxSwitchLog, MaxSwitchSpecial)

SwitchUndo == UndoLastBall("m1", Owner)

\* the "Start Second Innings" panel of client c1, offered once the overs are bowled
SwitchGet ==
  /\ inningsComplete(matches["m1"])
  /\ matches["m1"].status # COMPLETED
  /\ SwitchRead("c1", "m1", Owner, secondInningsOpeners)

SwitchWrite == SwitchUpdate("c1")

SwitchNext == SwitchScore \/ SwitchUndo \/ SwitchGet \/ SwitchWrite

SpecSwitch == SwitchInit /\ [][SwitchNext]_vars

RECURSIVE logRuns(_)
\* the runs of the events of a log
logRuns(log) ==
  IF log = <<>> THEN 0
  ELSE LET event == log[Len(log)].data
       IN logRuns(SubSeq(log, 1, Len(log) - 1)) + event.runs_off_bat
            + (IF event.extras = None THEN 0 ELSE event.extras[1].runs)

\* C24: the first_innings_total a switch has stored is the sum of the runs of
\* the events in the log of the first innings
TargetCountsEveryBall ==
  \A m \in DOMAIN matches :
    last = [op |-> "switchToSecondInnings", err |-> "none", match |-> m]
      => matches[m].live_state.first_innings_total = Some(logRuns(balls[m]["1"]))

\* C25: a match changes its status only from scheduled to live by startMatch,
\* from live to completed by endMatch or by a recordBall that attaches a
\* result, from live to abandoned, and from completed to live by undoLastBall;
\* a match that appears is scheduled
StatusTransitions ==
  [][ \A m \in DOMAIN matches' :
        IF m \notin DOMAIN matches
        THEN matches'[m].status = SCHEDULED
        ELSE matches'[m].status # matches[m].status =>
               \/ /\ matches[m].status = SCHEDULED /\ matches'[m].status = LIVE
                  /\ Called("startMatch") /\ last'.match = m
               \/ /\ matches[m].status = LIVE /\ matches'[m].status = COMPLETED
                  /\ \/ Called("endMatch") /\ last'.match = m
                     \/ Recorded(m) /\ matches'[m].result # None
               \/ /\ matches[m].status = LIVE /\ matches'[m].status = ABANDONED
               \/ /\ matches[m].status = COMPLETED /\ matches'[m].status = LIVE
                  /\ Called("undoLastBall") /\ last'.match = m
    ]_vars

\* a completed match with a rematch, brought back to live by an undo
ReopenedByUndo ==
  /\ last = [op |-> "undoLastBall", err |-> "none", match |-> "m1"]
  /\ DOMAIN matches = MatchIds
  /\ matches["m1"].status = LIVE

\* C27: a committed endMatch on a live match completes it, leaves it without
\* a result, and changes no field of the live state and no log
EndMatchFrame ==
  [][ \A m \in DOMAIN matches :
        (Called("endMatch") /\ last'.err = "none" /\ last'.match = m /\ matches[m].status = LIVE)
          => /\ matches'[m].status = COMPLETED
             /\ matches'[m].result = None
             /\ matches'[m].live_state = matches[m].live_state
             /\ balls' = balls
    ]_vars

\* the chase ended by hand one ball short of its overs
EndedOneBallShort ==
  /\ last = [op |-> "endMatch", err |-> "none", match |-> "m1"]
  /\ matches["m1"].status = COMPLETED
  /\ matches["m1"].result = None
  /\ matches["m1"].live_state.current_innings = Some(2)
  /\ Len(balls["m1"]["2"]) = 5

\* the call r was rejected and has changed nothing
rejected(r) == r.err # "none" /\ r.db = db

\* C26: startMatch is rejected and changes nothing unless the match is
\* scheduled, its toss recorded and both squads non-empty; recordBall,
\* switchToSecondInnings and endMatch are rejected and change nothing unless
\* the match is live; a rematch is rejected and creates nothing unless the
\* source match is completed
LifecycleGuards ==
  \A m \in DOMAIN matches :
    /\ ( \/ matches[m].status # SCHEDULED
         \/ matches[m].toss = None
         \/ matches[m].teams.a = <<>>
         \/ matches[m].teams.b = <<>> )
         => rejected(startMatch(db, m, Owner, OwnerOpeners))
    /\ matches[m].status # LIVE
         => /\ \A b \in AnyBallInputs : rejected(recordBall(db, m, Owner, b, 1, {}))
            /\ \A o \in {OwnerOpeners, secondInningsOpeners} :
                 rejected(switchToSecondInnings(db, m, Owner, o))
            /\ rejected(endMatch(db, m, Owner))
    /\ (matches[m].status # COMPLETED /\ DOMAIN matches # MatchIds)
         => rejected(createRematchWithSameSquads(db, m, Owner, 1))

\* a start refused for an empty squad, on a scheduled match with its toss recorded
StartRefusedForEmptySquad ==
  /\ last.op = "startMatch" /\ last.err # "none"
  /\ last.match \in DOMAIN matches
  /\ matches[last.match].status = SCHEDULED
  /\ matches[last.match].toss # None
  /\ matches[last.match].teams.a # <<>>
  /\ matches[last.match].teams.b = <<>>

\* C28: recordBall, undoLastBall, updateToss, startMatch, switchToSecondInnings
\* and endMatch called with no signed-in user, or by a user who is neither the
\* owner of the match nor one of its authorized users, fail and change no
\* match and no log; the transaction of undoLastBall refuses such a user on
\* the match it reads itself, whatever the query before it returned
AccessDeniedChangesNothing ==
  \A m \in DOMAIN matches, u \in Callers :
    (u = NoUser \/ ~userHasMatchAccess(matches[m], u))
      => /\ \A b \in AnyBallInputs : rejected(recordBall(db, m, u, b, 1, {}))
         /\ \A ig \in BOOLEAN :
              /\ rejected(undoLastBall(db, m, u, ig))
              /\ \A i \in DOMAIN balls[m] : \A k \in 1..Len(balls[m][i]) :
                   rejected(undoTransaction(db, m, u, i, balls[m][i][k].ref, ig))
         /\ \A t \in TossInputs : rejected(updateToss(db, m, u, t))
         /\ \A o \in {OwnerOpeners, secondInningsOpeners} :
              /\ rejected(startMatch(db, m, u, o))
              /\ rejected(switchToSecondInnings(db, m, u, o))
         /\ rejected(endMatch(db, m, u))

\* a user without access has tried to record a ball in the second innings
StrangerRefused ==
  /\ last = [op |-> "recordBall", err |-> "permission_denied", match |-> "m1"]
  /\ matches["m1"].status = LIVE
  /\ matches["m1"].live_state.current_innings = Some(2)
  /\ balls["m1"]["2"] # <<>>

\* the log of the innings in progress, by the innings counter of the live state
currentLog(m) ==
  balls[m][IF matches[m].live_state.current_innings = Some(2) THEN "2" ELSE "1"]

----------------------------------------------------------------------------
(* Two undo calls on the tail of one log, across the end of an over *)

\* deliveries in the log while two undo calls share its tail
MaxTwinLog == 7

\* deliveries of the match that are no dot balls
MaxTwinSpecial == 1

TwinInit ==
  /\ matches = bowlDots(startedDb(2, SquadA, SquadB), 5).matches
  /\ balls = bowlDots(startedDb(2, SquadA, SquadB), 5).balls
  /\ undoCall = [c \in Clients |-> idleCall]
  /\ last = [op |-> "recordBall", err |-> "none", match |-> "m1"]
  /\ showBowlerSelector = [m \in MatchIds |-> FALSE]

\* the scorer records while no undo call is under way
TwinScore ==
  /\ \A c \in Clients : undoCall[c].pc = "idle"
  /\ \E b \in {dot, runsBall(1)}, now \in Clock :
       RecordBall("m1", Owner, b, now, MaxTwinLog, MaxTwinSpecial)

TwinSelectBowler ==
  /\ \A c \in Clients : undoCall[c].pc = "idle"
  /\ \E p \in PlayerIds : NewBowlerSelect("m1", p)

TwinQuery == \E c \in Clients : UndoQuery(c, "m1", Owner)

TwinTransaction == \E c \in Clients : UndoTransaction(c)

TwinNext == TwinScore \/ TwinSelectBowler \/ TwinQuery \/ TwinTransaction

SpecTwin == TwinInit /\ [][TwinNext]_vars

\* clients c and k hold the same ball document, read as the tail of the same log
sameTail(c, k) ==
  /\ c # k
  /\ undoCall[c].pc = "queried" /\ undoCall[k].pc = "queried"
  /\ undoCall[c].match = undoCall[k].match
  /\ undoCall[c].innings = undoCall[k].innings
  /\ undoCall[c].ref = undoCall[k].ref

\* C31: of two undoLastBall calls that have read the same log tail, the one
\* whose transaction runs first commits, restoring the state and deleting that
\* event alone, and a transaction that finds its event deleted fails with the
\* already-removed error and changes no match and no log
TwinUndoCommitsOnce ==
  [][ \A c \in Clients :
        (undoCall[c].pc = "queried" /\ undoCall'[c].pc = "idle")
          => LET m == undoCall[c].match
                 i == undoCall[c].innings
                 ref == undoCall[c].ref
             IN IF ballDocExists(balls[m][i], ref)
                THEN (\E k \in Clients : sameTail(c, k))
                       => /\ last'.err = "none"
                          /\ balls' = [balls EXCEPT ![m][i] = deleteBallDoc(@, ref)]
                ELSE /\ last'.err = "already_removed"
                     /\ matches' = matches
                     /\ balls' = balls
    ]_vars

----------------------------------------------------------------------------
(* Two scorers recording on one match at the same time *)

\* deliveries in the log while two recordBall calls overlap
MaxPairLog == 6

\* deliveries of the match that are no dot balls
MaxPairSpecial == 2

PairInit ==
  /\ matches = bowlDots(startedDb(1, <<"a1", "a2">>, <<"b1", "b2">>), 4).matches
  /\ balls = bowlDots(startedDb(1, <<"a1", "a2">>, <<"b1", "b2">>), 4).balls
  /\ undoCall = [c \in Clients |-> idleCall]
  /\ last = [op |-> "recordBall", err |-> "none", match |-> "m1"]
  /\ showBowlerSelector = [m \in MatchIds |-> FALSE]

PairGet ==
  \E c \in Clients, b \in {dot, runsBall(1), extraBall(WIDE, 1)} : RecordGet(c, "m1", Owner, b)

PairCommit ==
  \E c \in Clients, now \in Clock : RecordCommit(c, now, MaxPairLog, MaxPairSpecial)

PairNext == PairGet \/ PairCommit

SpecPair == PairInit /\ [][PairNext]_vars

\* each event starts from the state the event before it left, and the live
\* state is the one the last event left
chained(log, liveState) ==
  /\ \A k \in 1..(Len(log) - 1) : log[k + 1].data.pre_ball_state = log[k].data.post_ball_state
  /\ Len(log) > 0 => liveState = log[Len(log)].data.post_ball_state

\* C32: overlapping recordBall calls on one match take effect one after the
\* other: the pre_ball_state of every event is the post_ball_state of the event
\* before it, the score holds the runs of every event of the log, and a call
\* returns the error, or the success, of its checks on the match as committed
\* just before it returns
RecordBallSerialized ==
  [][ /\ chained(balls'["m1"]["1"], matches'["m1"].live_state)
      /\ matches'["m1"].live_state.score.runs = logRuns(balls'["m1"]["1"])
      /\ \A c \in Clients :
           (undoCall[c].pc = "recording" /\ undoCall'[c].pc = "idle")
             => last'.err = recordBallError(matches, "m1", undoCall[c].uid,
                                            undoCall[c].snap[1].ballInput)
    ]_vars

\* the second of two overlapping calls was turned down because the first had
\* bowled the last ball of the innings
LaterCallSawEarlier ==
  /\ last = [op |-> "recordBall", err |-> "overs_complete", match |-> "m1"]
  /\ \A c \in Clients : undoCall[c].pc = "idle"
  /\ Len(balls["m1"]["1"]) = 6

----------------------------------------------------------------------------
(* The score and the statistics against the log *)

\* the events of a log bowled as legal deliveries (neither wide nor no-ball)
legalEvents(log) ==
  { k \in 1..Len(log) :
      \/ log[k].data.extras = None
      \/ log[k].data.extras[1].type \notin {WIDE, NO_BALL} }

\* the events of a log that carry a wicket
wicketEvents(log) == { k \in 1..Len(log) : log[k].data.wicket # None }

\* C33: through recordBall and undoLastBall calls made one after the other in
\* an innings, the runs of the score are the runs off the bat and the extras of
\* the events of its log, overs * 6 + balls is the number of its legal events
\* and the wickets are the number of its events that carry a wicket
ScoreFromLog ==
  \A m \in DOMAIN matches :
    matches[m].status # SCHEDULED
      => LET score == matches[m].live_state.score
             log == currentLog(m)
         IN /\ score.runs = logRuns(log)
            /\ score.overs * 6 + score.balls = Cardinality(legalEvents(log))
            /\ score.wickets = Cardinality(wicketEvents(log))

\* an undo has left a log that holds an extra or a wicket
UndoneToScoredLog ==
  /\ last = [op |-> "undoLastBall", err |-> "none", match |-> "m1"]
  /\ \/ legalEvents(currentLog("m1")) # 1..Len(currentLog("m1"))
     \/ wicketEvents(currentLog("m1")) # {}

\* C34: once current_innings is 2, no recordBall, undoLastBall,
\* switchToSecondInnings or updateToss that succeeds sets current_innings back
\* to 1 or changes first_innings_total
SecondInningsIsFinal ==
  \A m \in DOMAIN matches :
    matches[m].live_state.current_innings = Some(2)
      => \A r \in { recordBall(db, m, Owner, b, 1, {}) : b \in AnyBallInputs }
                  \cup { undoLastBall(db, m, Owner, ig) : ig \in BOOLEAN }
                  \cup { switchToSecondInnings(db, m, Owner, o) :
                           o \in {OwnerOpeners, secondInningsOpeners} }
                  \cup { updateToss(db, m, Owner, t) : t \in TossInputs } :
           r.err = "none"
             => /\ r.db.matches[m].live_state.current_innings = Some(2)
                /\ r.db.matches[m].live_state.first_innings_total
                     = matches[m].live_state.first_innings_total

\* C35: in every state of an innings the wickets of the score are the number
\* of player ids in the dismissed set
WicketsCountDismissed ==
  \A m \in DOMAIN matches :
    LET liveState == matches[m].live_state
    IN liveState.score.wickets = Cardinality(Range(liveState.dismissed_batter_ids))

\* a wicket has fallen in the second innings, after one in the first
WicketInEachInnings ==
  /\ matches["m1"].live_state.current_innings = Some(2)
  /\ matches["m1"].live_state.score.wickets > 0
  /\ wicketEvents(balls["m1"]["1"]) # {}

RECURSIVE batterRuns(_, _)
\* the runs of the batters ps in the batting statistics
batterRuns(batters, ps) ==
  IF ps = {} THEN 0
  ELSE LET p == CHOOSE q \in ps : TRUE
       IN (IF batters[p] = None THEN 0 ELSE batters[p][1].runs) + batterRuns(batters, ps \ {p})

RECURSIVE logRunsOffBat(_)
\* the runs off the bat of the events of a log
logRunsOffBat(log) ==
  IF log = <<>> THEN 0
  ELSE logRunsOffBat(SubSeq(log, 1, Len(log) - 1)) + log[Len(log)].data.runs_off_bat

\* C36: in every state of an innings the runs of the batters in player_stats
\* add up to the runs off the bat of the events of its log
BatterRunsFromLog ==
  \A m \in DOMAIN matches :
    LET batters == matches[m].live_state.player_stats.batters
    IN batterRuns(batters, DOMAIN batters) = logRunsOffBat(currentLog(m))

\* C37: a match carries a result only in status completed
ResultOnlyWhenCompleted ==
  \A m \in DOMAIN matches :
    matches[m].result # None => matches[m].status = COMPLETED

\* the ball that decided the chase has attached the result
ResultAttached ==
  /\ last = [op |-> "recordBall", err |-> "none", match |-> "m1"]
  /\ matches["m1"].result # None
  /\ matches["m1"].status = COMPLETED

\* C38: in every state of a started match the balls of the score are between
\* 0 and 5, the overs are at most the overs of the match, and the balls are 0
\* when the overs are those of the match
ScoreWithinOvers ==
  \A m \in DOMAIN matches :
    matches[m].status # SCHEDULED
      => LET score == matches[m].live_state.score
         IN /\ score.balls \in 0..5
            /\ score.overs \in 0..matches[m].config.total_overs
            /\ score.overs = matches[m].config.total_overs => score.balls = 0

\* a delivery was refused after the last over of the innings
RefusedBeyondLastOver ==
  /\ last = [op |-> "recordBall", err |-> "overs_complete", match |-> "m1"]
  /\ matches["m1"].live_state.score.overs = matches["m1"].config.total_overs
  /\ matches["m1"].live_state.score.balls = 0

\* deliveries of every kind of extra and of dismissal
CreditInputs(matchData) ==
  OverInputs(matchData)
    \cup { extraBall(t, 1) : t \in {LEG_BYE, PENALTY} }
    \cup { [extraBall(NO_BALL, 1) EXCEPT !.runs_off_bat = 4] }
    \cup { wicketBall(t, matchData.live_state.striker_id, TRUE) :
             t \in {x \in {CAUGHT, RUN_OUT, RETIRED} : truthy(matchData.live_state.striker_id)} }

\* C39: a recordBall that succeeds adds to the runs of the current bowler the
\* runs of the delivery, or nothing when its extras are byes or leg-byes, adds
\* 1 to the balls of the bowler exactly when the delivery is neither a wide nor
\* a no-ball, and adds 1 to the wickets of the bowler exactly when it carries a
\* wicket that is neither a run-out nor a retirement
BowlerCredited ==
  \A m \in DOMAIN matches : \A b \in CreditInputs(matches[m]) :
    LET r == recordBall(db, m, Owner, b, 1, {})
        bowler == matches[m].live_state.bowler_id
        bowlers == matches[m].live_state.player_stats.bowlers
        before == IF bowlers[bowler] = None
                  THEN [runs |-> 0, balls |-> 0, wickets |-> 0] ELSE bowlers[bowler][1]
        after == r.db.matches[m].live_state.player_stats.bowlers[bowler][1]
        type == IF b.extras = None THEN "" ELSE b.extras[1].type
        total == b.runs_off_bat + (IF b.extras = None THEN 0 ELSE b.extras[1].runs)
    IN (r.err = "none" /\ truthy(bowler))
         => /\ after.runs = before.runs + (IF type \in {BYE, LEG_BYE} THEN 0 ELSE total)
            /\ after.balls = before.balls + (IF type \in {WIDE, NO_BALL} THEN 0 ELSE 1)
            /\ after.wickets = before.wickets
                 + (IF b.wicket # None /\ b.wicket[1].type \notin {RUN_OUT, RETIRED}
                    THEN 1 ELSE 0)

\* a bye has been recorded against a bowler who has conceded no run
ByeNotCharged ==
  /\ last = [op |-> "recordBall", err |-> "none", match |-> "m1"]
  /\ LET liveState == matches["m1"].live_state
         log == currentLog("m1")
     IN /\ log[Len(log)].data.extras # None
        /\ log[Len(log)].data.extras[1].type = BYE
        /\ liveState.player_stats.bowlers[liveState.bowler_id] # None
        /\ liveState.player_stats.bowlers[liveState.bowler_id][1].runs = 0
        /\ liveState.score.runs > 0

\* C40: after a recordBall that succeeds is_free_hit is true exactly when the
\* delivery was a no-ball, after an undoLastBall that succeeds it has the value
\* it had before the deleted delivery, and a switchToSecondInnings that succeeds
\* leaves it false
FreeHitFollowsNoBall ==
  [][ \A m \in DOMAIN matches :
        /\ Recorded(m)
             => matches'[m].live_state.is_free_hit
                  = Some(appended(m).extras # None /\ appended(m).extras[1].type = NO_BALL)
        /\ (Called("undoLastBall") /\ last'.err = "none" /\ last'.match = m)
             => \E k \in 1..Len(currentLog(m)) :
                  /\ ~ballDocExists(balls'[m][getInningsId(matches[m])], currentLog(m)[k].ref)
                  /\ matches'[m].live_state.is_free_hit
                       = currentLog(m)[k].data.pre_ball_state.is_free_hit
        /\ \A o \in {secondInningsOpeners} :
             LET r == switchToSecondInnings(db, m, Owner, o)
             IN r.err = "none" => r.db.matches[m].live_state.is_free_hit = Some(FALSE)
    ]_vars

\* the delivery after a no-ball has been undone: the free hit stands again
FreeHitStandsAfterUndo ==
  /\ last = [op |-> "undoLastBall", err |-> "none", match |-> "m1"]
  /\ matches["m1"].live_state.is_free_hit = Some(TRUE)

====
